---------------------------- MODULE Spec2Model ----------------------------
(***************************************************************************)
(* Verification model of the Warzone 2100 maps-database pipeline.          *)
(*                                                                         *)
(* The state machines of this module:                                      *)
(*   SpecIndex   - the Database Indexer (scripts/funcs/update_map_db.py):  *)
(*                 add_to_mapdatabase_index, rebuild_mapdatabase_index,    *)
(*                 update_mapdatabase_versions_file.                       *)
(*   SpecRelease - the Release Builder (scripts/funcs/process_map_repo.py):*)
(*                 generate_releases_for_maprepo, one action per iteration *)
(*                 of its commit loop.                                     *)
(*   SpecUpload  - the Release Uploader (upload_generated_releases) run by *)
(*                 two process_map_repo runs against one hosted repository,*)
(*                 from the latest-release lookup on, one                  *)
(*                 action per external call, and the authenticated push    *)
(*                 (scripts/git_authenticated_push.py).                    *)
(*   SpecIngest  - update_map_db (scripts/funcs/update_map_db.py) as       *)
(*                 scripts/process_new_maps.py runs it: listing, publishing*)
(*                 to the asset store and the index, last_release pointers.*)
(*   SpecUploadAlone - one uploader run alone, with a host that can fail   *)
(*                 to answer the request for a release's publish date.     *)
(*   SpecMapInfo - validate_map_info and the normalizer                    *)
(*                 (scripts/funcs/map_funcs.py), each applied once to a    *)
(*                 MapInfo document drawn from a family of documents.      *)
(*   SpecPackage - compress_map_folder (scripts/funcs/compress_map.py)     *)
(*                 called on one map directory, with and without salt.     *)
(*   SpecMapList - the map-list command of scripts/validate_new_map.py     *)
(*                 run on a list of map paths.                             *)
(***************************************************************************)
EXTENDS Integers, Sequences, FiniteSets, TLC

VARIABLES
    \* ---- Database Indexer ----
    pages,          \* index page files: pages[n] is page n (v1/full.json, v1/full/page/<n>.json)
    versionsFile,   \* contents['versions'] of v1/versions.json
    assetStore,     \* per-map info/<hh>/<hash>.json files: hash -> record, or NoFile
    clock,          \* wall clock (the value time.gmtime() returns)
    lastOp,         \* the indexer operation that ran last
    lastNew,        \* the new_maps argument of the add_to_mapdatabase_index call that just ran
    \* ---- Release Builder (generate_releases_for_maprepo) ----
    pc,                             \* "start", "loop", "done" (returned) or "raised"
    commits,                        \* the rev-list output, oldest first
    cursor,                         \* how many commits the for loop has taken
    last_release_version,           \* tag name of the latest published release
    MAP_REPO_NEW_RELEASE_TAGNAME,   \* tag name of the release being filled
    releasesGeneratedThisRun,       \* tag name -> [commits, assets]
    releaseList,                    \* the list the function returns
    outputFolder,                   \* tag name -> [files, release_json] on disk
    changedFolders,                 \* the changed map directories of the commit just taken
    commitRelease,                  \* commit -> tag name that was current while its maps were processed
    \* ---- Release Uploader (upload_generated_releases) and git push ----
    remote,         \* the hosted releases of the map repository: tag name -> [by, complete]
    uploads,        \* per pipeline run: the position and locals of upload_generated_releases
    calls,          \* the mutating external calls executed so far: [run, op, tag]
    published,      \* <<run, tag>> for every create call that ran and returned exit code 0
    push,           \* what handle_gh_git_authenticated_push returned, "none" before it ran
    \* ---- Database ingestion (update_map_db, process_new_maps) ----
    hosted,         \* per map repository: how many releases the host has (v1..vn, oldest first)
    map_repos_json, \* .config/map-repos.json: per map repository its 'last_release'
    ingest,         \* the position and locals of the update_map_db call
    last_run,       \* what the last finished update_map_db run (not a dry run) met
    \* ---- MapInfo functions (validate_map_info, the normalizer) ----
    mi_call,        \* "none", or the function that was called: "validate" or "convert"
    mi_input,       \* the MapInfo document passed (map_info_json)
    mi_args,        \* enforce_format_checks and warning_options
    mi_result,      \* what the call returned or raised
    \* ---- Archive packager (compress_map_folder) ----
    pk_tree,        \* the map directory: relative path of each file -> content
    pk_calls,       \* the compress_map_folder calls made: salt, platform, archive
    \* ---- Map-list validation command (validate_new_map.py map-list) ----
    map_path_list,  \* the listed maps and the command's options
    vlist           \* the position and locals of validate_repo_map_list

idxVars == <<pages, versionsFile, assetStore, clock, lastOp, lastNew>>

relVars == <<pc, commits, cursor, last_release_version, MAP_REPO_NEW_RELEASE_TAGNAME,
             releasesGeneratedThisRun, releaseList, outputFolder, changedFolders,
             commitRelease>>

uplVars == <<remote, uploads, calls, published, push>>

\* what the operations of one component leave alone
ingVars == <<hosted, map_repos_json, ingest, last_run>>

miVars == <<mi_call, mi_input, mi_args, mi_result>>

pkVars == <<pk_tree, pk_calls>>

vlVars == <<map_path_list, vlist>>

notIdxVars == <<relVars, uplVars, ingVars, miVars, pkVars, vlVars>>

notRelVars == <<idxVars, uplVars, ingVars, miVars, pkVars, vlVars>>

notUplVars == <<idxVars, relVars, ingVars, miVars, pkVars, vlVars>>

notIngVars == <<idxVars, relVars, uplVars, miVars, pkVars, vlVars>>

notMiVars == <<idxVars, relVars, uplVars, ingVars, pkVars, vlVars>>

notPkVars == <<idxVars, relVars, uplVars, ingVars, miVars, vlVars>>

notVlVars == <<idxVars, relVars, uplVars, ingVars, miVars, pkVars>>

vars == <<idxVars, relVars, uplVars, ingVars, miVars, pkVars, vlVars>>

\* ------------------------------------------------------------------------
\* Bounds of the model
\* ------------------------------------------------------------------------
\* page capacity used by the model runs (the code's default is 3000)
MaxMapsPerIndexFile == 2
\* longest new_maps list handed to one add_to_mapdatabase_index call
MaxNewMaps == 5
\* add_to_mapdatabase_index is not called once the index holds this many records
MaxIndexRecords == 5
\* the wall clock stops advancing here
MaxClock == 1
\* asset cap used by the model runs (max_assets_per_release, 100 by default)
MaxAssetsPerRelease == 2
\* most commits rev-list returns
MaxCommits == 2
\* most map directories one commit changes
MaxChangedFolders == 3

\* upload_generated_releases: the longest releases list a run is given
MaxUploadReleases == 2

\* update_map_db: the most releases a map repository's host gets
MaxHostedReleases == 2

\* ------------------------------------------------------------------------
\* Helpers
\* ------------------------------------------------------------------------
Min(a, b) == IF a < b THEN a ELSE b

\* d[k] = v on a dict that may or may not hold k
SetKey(d, k, v) == [x \in (DOMAIN d) \cup {k} |-> IF x = k THEN v ELSE d[x]]

\* the value read for a file that does not exist
NoFile == [hash |-> "", rev |-> 0]

\* content hashes of map archives, and revisions of a record's other fields
Hashes == {"h1", "h2"}
Revs == {1, 2}
\* a MapDatabaseRecord: download.hash plus everything else (rev)
MapRecords == [hash : Hashes, rev : Revs]
\* records as first published (the revision later rewrites of the asset store replace)
NewRecords == [hash : Hashes, rev : {1}]

\* all sequences over S of length lo..hi
SeqsBetween(S, lo, hi) == UNION {[1..n -> S] : n \in lo..hi}

\* ------------------------------------------------------------------------
\* Database Indexer (update_map_db.py)
\* ------------------------------------------------------------------------
\* the relative path of page `pagenum`, joined with '/'
generate_full_index_page_path_components(pagenum) ==
    IF pagenum > 1
        THEN "v1/full/page/" \o ToString(pagenum) \o ".json"
        ELSE "v1/full.json"

\* '/' + '/'.join(prepend_data_root_relurl_components(components)), empty data root
PageUrl(pagenum) == "/" \o generate_full_index_page_path_components(pagenum)

\* map_db_full_index_pages: pages 1, 2, ... while the file exists
map_db_full_index_pages(pgs) == 1..Len(pgs)

\* os.path.exists(generate_full_index_page_path(root, pagenum))
PageExists(pgs, pagenum) == pagenum \in 1..Len(pgs)

\* variant: always starts at the first page
get_current_index_page_first(pgs) == 1

\* the highest existing page number, 1 when no page exists
get_current_index_page(pgs) == IF Len(pgs) = 0 THEN 1 ELSE Len(pgs)

\* variant: the prev link is written with the page's own number
initialize_new_index_page_selfprev(pagenum, now) ==
    [ id      |-> "full-page-" \o ToString(pagenum),
      version |-> now,
      links   |-> IF pagenum > 1
                      THEN [self |-> PageUrl(pagenum), prev |-> PageUrl(pagenum)]
                      ELSE [self |-> PageUrl(pagenum)],
      maps    |-> << >> ]

initialize_new_index_page(pagenum, now) ==
    [ id      |-> "full-page-" \o ToString(pagenum),
      version |-> now,
      links   |-> IF pagenum > 1
                      THEN [self |-> PageUrl(pagenum), prev |-> PageUrl(pagenum - 1)]
                      ELSE [self |-> PageUrl(pagenum)],
      maps    |-> << >> ]

\* json.dump of page `pagenum` to its path
WritePage(pgs, pagenum, page) ==
    IF PageExists(pgs, pagenum)
        THEN [pgs EXCEPT ![pagenum] = page]
        ELSE Append(pgs, page)

\* variant: the slice takes one record too many
NewMapsEnd_offbyone(new_maps_start, num_maps_in_page, new_maps) ==
    Min(new_maps_start + MaxMapsPerIndexFile + 1, Len(new_maps))

\* new_maps_end = min(new_maps_start + max_maps_per_index_file, len(new_maps))
NewMapsEnd(new_maps_start, num_maps_in_page, new_maps) ==
    Min(new_maps_start + MaxMapsPerIndexFile, Len(new_maps))

\* the while loop of add_to_mapdatabase_index (new_maps_start is 0-based)
RECURSIVE AddLoop(_, _, _, _, _)
AddLoop(pgs, curr_index_pagenum, new_maps, new_maps_start, now) ==
    IF ~(new_maps_start < Len(new_maps))
        THEN pgs
        ELSE
            LET loaded == IF PageExists(pgs, curr_index_pagenum)
                            THEN pgs[curr_index_pagenum]
                            ELSE initialize_new_index_page(curr_index_pagenum, now)
                num_maps_in_page == Len(loaded.maps)
                new_maps_end == NewMapsEnd(new_maps_start, num_maps_in_page, new_maps)
                extended == [loaded EXCEPT
                                !.maps = @ \o SubSeq(new_maps, new_maps_start + 1, new_maps_end),
                                !.version = now]
                linked == IF new_maps_end < Len(new_maps)
                            THEN [extended EXCEPT
                                    !.links = SetKey(@, "next", PageUrl(curr_index_pagenum + 1))]
                            ELSE extended
            IN  AddLoop(WritePage(pgs, curr_index_pagenum, linked),
                        curr_index_pagenum + 1, new_maps, new_maps_end, now)

\* variant: the page being filled last is left out of the manifest
update_mapdatabase_versions_file_short(pgs) ==
    [p \in 1..(Len(pgs) - 1) |->
        [page |-> pgs[p].links.self, version |-> pgs[p].version]]

\* the versions list update_mapdatabase_versions_file writes
update_mapdatabase_versions_file(pgs) ==
    [p \in map_db_full_index_pages(pgs) |->
        [page |-> pgs[p].links.self, version |-> pgs[p].version]]

\* variant: a missing asset file is not caught and the position is blanked
RebuildItem_nocatch(map_item, store) == store[map_item.hash]

\* the record rebuild stores at one position of a page
RebuildItem(map_item, store) ==
    IF store[map_item.hash] # NoFile
        THEN store[map_item.hash]
        ELSE map_item

\* one page as rebuild_mapdatabase_index rewrites it
RebuildPage(page, store, now) ==
    [page EXCEPT
        !.maps = [i \in 1..Len(page.maps) |-> RebuildItem(page.maps[i], store)],
        !.version = now]

\* all records of the index, in page order
RECURSIVE ConcatMaps(_)
ConcatMaps(pgs) ==
    IF Len(pgs) = 0 THEN << >>
    ELSE ConcatMaps(SubSeq(pgs, 1, Len(pgs) - 1)) \o pgs[Len(pgs)].maps

\* add_to_mapdatabase_index(new_maps, ...)
AddToIndex(new_maps) ==
    /\ Len(ConcatMaps(pages)) + Len(new_maps) <= MaxIndexRecords
    /\ LET written == AddLoop(pages, get_current_index_page(pages), new_maps, 0, clock)
       IN  /\ pages' = written
           /\ versionsFile' = update_mapdatabase_versions_file(written)
    /\ lastOp' = "add"
    /\ lastNew' = new_maps
    /\ UNCHANGED <<assetStore, clock>>
    /\ UNCHANGED notIdxVars

\* rebuild_mapdatabase_index(...)
Rebuild ==
    /\ LET written == [p \in map_db_full_index_pages(pages) |->
                            RebuildPage(pages[p], assetStore, clock)]
       IN  /\ pages' = written
           /\ versionsFile' = update_mapdatabase_versions_file(written)
    /\ lastOp' = "rebuild"
    /\ lastNew' = << >>
    /\ UNCHANGED <<assetStore, clock>>
    /\ UNCHANGED notIdxVars

\* publish_maprepo_release_to_mapassets_database writes info/<hh>/<hash>.json
WriteAssetInfo(rec) ==
    /\ assetStore' = [assetStore EXCEPT ![rec.hash] = rec]
    /\ lastOp' = "store"
    /\ lastNew' = << >>
    /\ UNCHANGED <<pages, versionsFile, clock>>
    /\ UNCHANGED notIdxVars

\* time passes
Tick ==
    /\ clock < MaxClock
    /\ clock' = clock + 1
    /\ lastOp' = "tick"
    /\ lastNew' = << >>
    /\ UNCHANGED <<pages, versionsFile, assetStore>>
    /\ UNCHANGED notIdxVars

\* no index page, no versions.json and no asset file exists
IndexEmpty ==
    /\ pages = << >>
    /\ versionsFile = << >>
    /\ assetStore = [h \in Hashes |-> NoFile]
    /\ clock = 0
    /\ lastOp = "none"
    /\ lastNew = << >>

NextIndex ==
    \/ \E new_maps \in SeqsBetween(NewRecords, 0, MaxNewMaps) : AddToIndex(new_maps)
    \/ Rebuild
    \/ \E rec \in MapRecords : WriteAssetInfo(rec)
    \/ Tick


\* ------------------------------------------------------------------------
\* Text helpers: a Python str is a sequence of one-character strings
\* ------------------------------------------------------------------------
DigitChars == <<"0", "1", "2", "3", "4", "5", "6", "7", "8", "9">>

IsDigit(c) == \E i \in 1..10 : DigitChars[i] = c

DigitVal(c) == (CHOOSE i \in 1..10 : DigitChars[i] = c) - 1

\* int() of a sequence of digits
RECURSIVE DigitsToInt(_)
DigitsToInt(ds) ==
    IF Len(ds) = 0 THEN 0
    ELSE 10 * DigitsToInt(SubSeq(ds, 1, Len(ds) - 1)) + DigitVal(ds[Len(ds)])

\* str() of a natural number
RECURSIVE IntToDigits(_)
IntToDigits(n) ==
    IF n < 10 THEN <<DigitChars[n + 1]>>
    ELSE Append(IntToDigits(n \div 10), DigitChars[(n % 10) + 1])

\* length of the longest run of digits that starts at position `from`
RECURSIVE DigitRun(_, _)
DigitRun(s, from) ==
    IF from <= Len(s) /\ IsDigit(s[from]) THEN 1 + DigitRun(s, from + 1) ELSE 0

\* the characters of [A-Za-z0-9\-_]
NameChars ==
    { "A", "B", "C", "D", "E", "F", "G", "H", "I", "J", "K", "L", "M",
      "N", "O", "P", "Q", "R", "S", "T", "U", "V", "W", "X", "Y", "Z",
      "a", "b", "c", "d", "e", "f", "g", "h", "i", "j", "k", "l", "m",
      "n", "o", "p", "q", "r", "s", "t", "u", "v", "w", "x", "y", "z",
      "0", "1", "2", "3", "4", "5", "6", "7", "8", "9", "-", "_" }

\* NAME_FORMAT_RE.match(s): ^[A-Za-z0-9\-_]+$ ($ also matches before a final newline)
NAME_FORMAT_RE(s) ==
    LET body == IF Len(s) > 0 /\ s[Len(s)] = "\n" THEN SubSeq(s, 1, Len(s) - 1) ELSE s
    IN  /\ Len(body) > 0
        /\ \A i \in 1..Len(body) : body[i] \in NameChars

\* DATE_FORMAT_RE.match(s): the groups year, month, day, or matched = FALSE.
\* The pattern has no end anchor and its time part is optional, so only the
\* date prefix decides the match.
DateAfterYear(s, yl) ==
    IF /\ yl >= 4
       /\ Len(s) >= yl + 6
       /\ s[yl + 1] = "-"
       /\ \/ (s[yl + 2] = "0" /\ IsDigit(s[yl + 3]) /\ s[yl + 3] # "0")
          \/ (s[yl + 2] = "1" /\ s[yl + 3] \in {"0", "1", "2"})
       /\ s[yl + 4] = "-"
       /\ \/ (s[yl + 5] = "0" /\ IsDigit(s[yl + 6]) /\ s[yl + 6] # "0")
          \/ (s[yl + 5] \in {"1", "2"} /\ IsDigit(s[yl + 6]))
          \/ (s[yl + 5] = "3" /\ s[yl + 6] \in {"0", "1"})
        THEN [matched |-> TRUE,
              year  |-> SubSeq(s, 1, yl),
              month |-> SubSeq(s, yl + 2, yl + 3),
              day   |-> SubSeq(s, yl + 5, yl + 6)]
        ELSE [matched |-> FALSE, year |-> << >>, month |-> << >>, day |-> << >>]

DATE_FORMAT_RE(s) == DateAfterYear(s, DigitRun(s, 1))

\* ------------------------------------------------------------------------
\* Calendar (datetime.datetime)
\* ------------------------------------------------------------------------
IsLeap(y) == (y % 4 = 0 /\ y % 100 # 0) \/ y % 400 = 0

DaysInMonth(y, m) ==
    IF m = 2 THEN (IF IsLeap(y) THEN 29 ELSE 28)
    ELSE IF m \in {4, 6, 9, 11} THEN 30 ELSE 31

\* datetime(y, m, d) raises ValueError outside these ranges
DateValid(y, m, d) ==
    /\ y \in 1..9999
    /\ m \in 1..12
    /\ d \in 1..DaysInMonth(y, m)

\* day number of a civil date (proleptic Gregorian)
DayNumber(y, m, d) ==
    LET yy  == IF m <= 2 THEN y - 1 ELSE y
        era == yy \div 400
        yoe == yy - era * 400
        mp  == (m + 9) % 12
        doy == (153 * mp + 2) \div 5 + d - 1
        doe == yoe * 365 + yoe \div 4 - yoe \div 100 + doy
    IN  era * 146097 + doe

\* datetime.now(): the date of the run; the time of day is after midnight
NowDate == [year |-> 2026, month |-> 11, day |-> 2]

\* (datetime.now() - created_datetime).days
DeltaNowDays(y, m, d) ==
    DayNumber(NowDate.year, NowDate.month, NowDate.day) - DayNumber(y, m, d)

\* ------------------------------------------------------------------------
\* SPDX license expressions (license_expression library)
\* ------------------------------------------------------------------------
\* the license keys the model's licensing object knows
KnownLicenseKeys ==
    { "CC0-1.0", "GPL-2.0-or-later", "CC-BY-3.0", "CC-BY-SA-3.0",
      "CC-BY-4.0", "CC-BY-SA-4.0", "MIT", "GPL-3.0-or-later" }

\* licensing.parse(tokens, validate=True, strict=True) succeeds
LicenseParses(tokens) ==
    /\ Len(tokens) % 2 = 1
    /\ \A i \in 1..Len(tokens) :
        IF i % 2 = 1 THEN tokens[i] \in KnownLicenseKeys
                     ELSE tokens[i] \in {"OR", "AND"}

\* the parsed expression in disjunctive normal form (AND binds tighter than
\* OR): a set of conjuncts, each a set of keys
RECURSIVE DNFFold(_, _, _, _)
DNFFold(tokens, i, done, cur) ==
    IF i > Len(tokens) THEN done \cup {cur}
    ELSE IF tokens[i - 1] = "OR"
        THEN DNFFold(tokens, i + 2, done \cup {cur}, {tokens[i]})
        ELSE DNFFold(tokens, i + 2, done, cur \cup {tokens[i]})

LicenseDNF(tokens) == DNFFold(tokens, 3, {}, {tokens[1]})

expected_license_expressions ==
    << <<"CC0-1.0">>,
       <<"GPL-2.0-or-later">>,
       <<"CC-BY-3.0", "OR", "GPL-2.0-or-later">>,
       <<"CC-BY-SA-3.0", "OR", "GPL-2.0-or-later">>,
       <<"CC-BY-4.0", "OR", "GPL-2.0-or-later">>,
       <<"CC-BY-SA-4.0", "OR", "GPL-2.0-or-later">> >>

\* any(licensing.is_equivalent(parsed, expected) for expected in ...)
LicenseExpected(tokens) ==
    \E i \in 1..Len(expected_license_expressions) :
        LicenseDNF(tokens) = LicenseDNF(expected_license_expressions[i])

\* ------------------------------------------------------------------------
\* Metadata Validator (map_funcs.py)
\* ------------------------------------------------------------------------
MAX_SUGGESTED_MAP_NAME_LENGTH == 30
MAX_ALLOWED_MAP_NAME_LENGTH == 60
MAX_ALLOWED_AUTHOR_NAME_LENGTH == 60

\* 'key' in map_info_json
Has(d, k) == k \in DOMAIN d

\* ValidateMapWarningOptions()
DefaultWarningOptions ==
    [ short_name_warning |-> TRUE,
      missing_created_date_warning |-> TRUE,
      zero_oil_warning |-> TRUE,
      player_structure_zero_warnings |-> TRUE,
      mods_texture_overrides_warning |-> TRUE,
      mods_auto_strip_warning |-> TRUE,
      mods_no_modtypes_warning |-> TRUE,
      format_warnings |-> TRUE ]

\* what one rule adds to the three finding lists, or the exception it raises
Findings(e, n, w) ==
    [raised |-> "", errors |-> e, errors_non_fatal |-> n, warnings |-> w,
     has_valid_license |-> FALSE, failedFormat |-> FALSE]

Raises(exc) == [Findings(<< >>, << >>, << >>) EXCEPT !.raised = exc]

When(cond, finding) == IF cond THEN <<finding>> ELSE << >>

\* lines 55-71
RuleName(info, opts) ==
    IF ~Has(info, "name") THEN Raises("KeyError")
    ELSE IF Len(info.name) = 0 THEN Findings(<< >>, << >>, << >>)
    ELSE
        LET name_length == Len(info.name)
        IN  Findings(
                When(name_length > MAX_ALLOWED_MAP_NAME_LENGTH, "name too long")
                    \o When(~NAME_FORMAT_RE(info.name), "name has unsupported characters"),
                << >>,
                When(name_length < 6 /\ opts.short_name_warning, "name is short")
                    \o When(name_length <= MAX_ALLOWED_MAP_NAME_LENGTH
                              /\ name_length > MAX_SUGGESTED_MAP_NAME_LENGTH,
                            "name is long"))

\* lines 73-76
RuleType(info) ==
    IF ~Has(info, "type") THEN Raises("KeyError")
    ELSE Findings(When(info.type # "skirmish", "type not allowed"), << >>, << >>)

\* lines 78-80
RulePlayers(info) ==
    IF ~Has(info, "players") THEN Raises("KeyError")
    ELSE Findings(When(info.players \notin 2..10, "players not allowed"), << >>, << >>)

\* lines 82-85
RuleTileset(info) ==
    IF ~Has(info, "tileset") THEN Raises("KeyError")
    ELSE Findings(When(info.tileset \notin {"arizona", "urban", "rockies"},
                       "tileset not allowed"), << >>, << >>)

\* lines 87-100
RuleLicense(info) ==
    IF ~Has(info, "license") THEN Findings(<<"missing license">>, << >>, << >>)
    ELSE IF ~LicenseParses(info.license)
        THEN Findings(<<"license failed parsing">>, << >>, << >>)
    ELSE IF ~LicenseExpected(info.license)
        THEN Findings(<<"license not expected">>, << >>, << >>)
    ELSE [Findings(<< >>, << >>, << >>) EXCEPT !.has_valid_license = TRUE]

\* variant: a missing author is an error whatever the license is
RuleAuthor_strict(info, has_valid_license) ==
    IF ~Has(info, "author") THEN Findings(<<"missing author">>, << >>, << >>)
    ELSE Findings(When(Len(info.author.name) > MAX_ALLOWED_AUTHOR_NAME_LENGTH,
                       "author name too long"),
                  << >>,
                  When(Len(info.author.name) = 0, "empty author name"))

\* lines 102-120
RuleAuthor(info, has_valid_license) ==
    IF ~Has(info, "author") THEN
        IF Has(info, "additionalAuthors")
            THEN Findings(<<"missing author, has additionalAuthors">>, << >>, << >>)
        ELSE IF has_valid_license
            THEN Findings(<< >>, <<"missing author">>, << >>)
            ELSE Findings(<<"missing author">>, << >>, << >>)
    ELSE IF ~Has(info.author, "name")
        THEN Findings(<<"missing author name">>, << >>, << >>)
    ELSE
        LET author_name_length == Len(info.author.name)
        IN  Findings(
                When(author_name_length # 0
                        /\ author_name_length > MAX_ALLOWED_AUTHOR_NAME_LENGTH,
                     "author name too long"),
                << >>,
                When(author_name_length = 0, "empty author name"))

\* lines 127-132 for the matched groups year, month, day
CheckCreatedDate(y, mo, d) ==
    \* datetime(year, month, day)
    IF ~DateValid(y, mo, d) THEN Raises("ValueError")
    \* errors.append(text, value): list.append takes exactly one argument
    ELSE IF DeltaNowDays(y, mo, d) < -1 THEN Raises("TypeError")
    ELSE IF y < 1999 THEN Raises("TypeError")
    ELSE Findings(<< >>, << >>, << >>)

\* lines 126-134 for the result of DATE_FORMAT_RE.match
CheckCreatedMatch(m) ==
    IF ~m.matched THEN Findings(<<"invalid created date format">>, << >>, << >>)
    ELSE CheckCreatedDate(DigitsToInt(m.year), DigitsToInt(m.month), DigitsToInt(m.day))

\* lines 122-137
RuleCreated(info, opts) ==
    IF ~Has(info, "created")
        THEN Findings(<< >>, << >>,
                      When(opts.missing_created_date_warning, "missing created date"))
    ELSE CheckCreatedMatch(DATE_FORMAT_RE(info.created))

\* lines 139-146
RuleMapsize(info) ==
    IF ~Has(info, "mapsize") THEN Raises("KeyError")
    ELSE IF ~Has(info.mapsize, "w") \/ ~Has(info.mapsize, "h") THEN Raises("KeyError")
    ELSE Findings(
            When(~(1 <= info.mapsize.w /\ info.mapsize.w <= 256), "invalid mapsize.w")
                \o When(~(1 <= info.mapsize.h /\ info.mapsize.h <= 256), "invalid mapsize.h"),
            << >>, << >>)

\* map_info_json['player'][counter]['min'] can be read
HasMin(info, counter) ==
    /\ Has(info, "player")
    /\ Has(info.player, counter)
    /\ Has(info.player[counter], "min")

\* lines 148-151
RuleOil(info, opts) ==
    IF ~Has(info, "oilWells") THEN Raises("KeyError")
    ELSE IF info.oilWells > 0 THEN Findings(<< >>, << >>, << >>)
    ELSE IF ~HasMin(info, "resourceExtractors") THEN Raises("KeyError")
    ELSE Findings(<< >>, << >>,
                  When(~(info.player.resourceExtractors.min > 0) /\ opts.zero_oil_warning,
                       "no oil"))

\* lines 157-162 for player index i (0-based); hq is a list or null
HqMissing(hq, i) ==
    \/ ~(i + 1 \in DOMAIN hq)
    \/ ~Has(hq[i + 1], "x")
    \/ ~Has(hq[i + 1], "y")

RECURSIVE HqWarnings(_, _, _)
HqWarnings(hq, i, max_players) ==
    IF ~(i < max_players) THEN << >>
    ELSE When(HqMissing(hq, i), "player has no HQ") \o HqWarnings(hq, i + 1, max_players)

\* lines 153-162
RuleHq(info) ==
    IF ~Has(info, "players") THEN Raises("KeyError")
    ELSE IF ~(info.players >= 2) THEN Findings(<< >>, << >>, << >>)
    ELSE IF ~Has(info, "hq") THEN Raises("KeyError")
    ELSE Findings(<< >>, << >>, HqWarnings(info.hq, 2, info.players))

\* lines 164-175
RuleStructures(info, opts) ==
    IF ~Has(info, "player") THEN Raises("KeyError")
    ELSE IF ~HasMin(info, "powerGenerators") THEN Raises("KeyError")
    ELSE IF ~HasMin(info, "regFactories") THEN Raises("KeyError")
    ELSE IF info.player.regFactories.min <= 0 /\ ~HasMin(info, "vtolFactories")
        THEN Raises("KeyError")
    ELSE IF info.player.regFactories.min <= 0 /\ info.player.vtolFactories.min <= 0
                /\ ~HasMin(info, "cyborgFactories")
        THEN Raises("KeyError")
    ELSE IF ~HasMin(info, "researchCenters") THEN Raises("KeyError")
    ELSE
        LET on == opts.player_structure_zero_warnings
            noFactories == /\ info.player.regFactories.min <= 0
                           /\ info.player.vtolFactories.min <= 0
                           /\ info.player.cyborgFactories.min <= 0
        IN  Findings(<< >>, << >>,
                When(info.player.powerGenerators.min <= 0 /\ on, "no powerGenerators")
                    \o When(noFactories /\ on, "no factories")
                    \o When(info.player.researchCenters.min <= 0 /\ on, "no researchCenters"))

\* item in map_info_json['modTypes']
InList(item, list) == \E i \in 1..Len(list) : list[i] = item

\* ','.join(items)
RECURSIVE JoinComma(_)
JoinComma(items) ==
    IF Len(items) = 0 THEN ""
    ELSE IF Len(items) = 1 THEN items[1]
    ELSE items[1] \o "," \o JoinComma(Tail(items))

\* variant: mods are announced as stripped although they cannot be stripped
RuleMod_alwaysstrip(info, opts) ==
    IF info.mapMod # TRUE THEN Findings(<< >>, << >>, << >>)
    ELSE IF ~Has(info, "modTypes")
        THEN Findings(<< >>, << >>,
                      When(opts.mods_no_modtypes_warning, "mapMod without modTypes"))
    ELSE Findings(
            When(InList("gamemodels", info.modTypes) /\ InList("datasets", info.modTypes),
                 "unable to auto-strip mods"),
            << >>,
            When(InList("textures", info.modTypes) /\ opts.mods_texture_overrides_warning,
                 "texture overrides")
                \o When(opts.mods_auto_strip_warning,
                        "will auto-strip mods: " \o JoinComma(info.modTypes)))

\* lines 177-200
RuleMod(info, opts) ==
    IF ~Has(info, "mapMod") THEN Raises("KeyError")
    ELSE IF info.mapMod # TRUE THEN Findings(<< >>, << >>, << >>)
    ELSE IF ~Has(info, "modTypes")
        THEN Findings(<< >>, << >>,
                      When(opts.mods_no_modtypes_warning, "mapMod without modTypes"))
    ELSE
        LET both == InList("gamemodels", info.modTypes) /\ InList("datasets", info.modTypes)
            can_strip_mods == ~both
        IN  Findings(
                When(both, "unable to auto-strip mods"),
                << >>,
                When(InList("textures", info.modTypes) /\ opts.mods_texture_overrides_warning,
                     "texture overrides")
                    \o When(can_strip_mods /\ opts.mods_auto_strip_warning,
                            "will auto-strip mods: " \o JoinComma(info.modTypes)))

\* variant: the flag is cleared only when the failed check is enforced
FormatCheck_flagwhenenforced(failed, finding, enforce_format_checks, opts) ==
    IF ~failed THEN Findings(<< >>, << >>, << >>)
    ELSE [Findings(When(enforce_format_checks, finding),
                   << >>,
                   When(~enforce_format_checks /\ opts.format_warnings, finding))
            EXCEPT !.failedFormat = enforce_format_checks]

\* one of the three format checks, lines 206-212, 217-223, 226-232
FormatCheck(failed, finding, enforce_format_checks, opts) ==
    IF ~failed THEN Findings(<< >>, << >>, << >>)
    ELSE [Findings(When(enforce_format_checks, finding),
                   << >>,
                   When(~enforce_format_checks /\ opts.format_warnings, finding))
            EXCEPT !.failedFormat = TRUE]

RuleLevelFormat(info, enforce_format_checks, opts) ==
    IF ~Has(info, "levelFormat") THEN Raises("KeyError")
    ELSE FormatCheck(info.levelFormat # "json", "level format not modern",
                     enforce_format_checks, opts)

RuleMapFormat(info, enforce_format_checks, opts) ==
    IF ~Has(info, "mapFormat") THEN Raises("KeyError")
    ELSE FormatCheck(info.mapFormat \notin {"script", "jsonv2"}, "map format not modern",
                     enforce_format_checks, opts)

RuleFlatPackage(info, enforce_format_checks, opts) ==
    IF ~Has(info, "flatMapPackage") THEN Raises("KeyError")
    ELSE FormatCheck(info.flatMapPackage # TRUE, "not a flatMapPackage",
                     enforce_format_checks, opts)

\* what each rule yields, in source order
RuleResults(info, enforce_format_checks, opts) ==
    << RuleName(info, opts),
       RuleType(info),
       RulePlayers(info),
       RuleTileset(info),
       RuleLicense(info),
       RuleAuthor(info, RuleLicense(info).has_valid_license),
       RuleCreated(info, opts),
       RuleMapsize(info),
       RuleOil(info, opts),
       RuleHq(info),
       RuleStructures(info, opts),
       RuleMod(info, opts),
       RuleLevelFormat(info, enforce_format_checks, opts),
       RuleMapFormat(info, enforce_format_checks, opts),
       RuleFlatPackage(info, enforce_format_checks, opts) >>

\* the findings of rules 1..n appended in order
RECURSIVE CollectFindings(_, _, _)
CollectFindings(results, field, n) ==
    IF n = 0 THEN << >>
    ELSE CollectFindings(results, field, n - 1) \o results[n][field]

\* the rule that raises first, 0 when none does
FirstRaising(results) ==
    IF \A i \in 1..Len(results) : results[i].raised = "" THEN 0
    ELSE CHOOSE i \in 1..Len(results) :
            /\ results[i].raised # ""
            /\ \A j \in 1..(i - 1) : results[j].raised = ""

\* the function body: every rule runs unless an earlier one raised
CombineRules(results) ==
    IF FirstRaising(results) # 0
        THEN Raises(results[FirstRaising(results)].raised)
        ELSE [ raised |-> "",
               errors |-> CollectFindings(results, "errors", Len(results)),
               errors_non_fatal |-> CollectFindings(results, "errors_non_fatal", Len(results)),
               warnings |-> CollectFindings(results, "warnings", Len(results)),
               has_valid_license |-> results[5].has_valid_license,
               failedFormat |-> \E i \in 1..Len(results) : results[i].failedFormat ]

RunRules(info, enforce_format_checks, opts) ==
    CombineRules(RuleResults(info, enforce_format_checks, opts))

\* MapInfoValidationResult(warnings, errors, passedFormatChecks, errors_non_fatal)
MapInfoValidationResult(r) ==
    [ raised |-> r.raised,
      errors |-> r.errors,
      errors_non_fatal |-> r.errors_non_fatal,
      warnings |-> r.warnings,
      passedFormatChecks |-> ~r.failedFormat ]

\* validate_map_info(map_info_json, enforce_format_checks, warning_options):
\* the MapInfoValidationResult, or the exception that leaves the function
validate_map_info(info, enforce_format_checks, opts) ==
    MapInfoValidationResult(RunRules(info, enforce_format_checks, opts))

\* ------------------------------------------------------------------------
\* Map folders of the map repository (inputs of the Release Builder)
\* ------------------------------------------------------------------------
PlayerCounters ==
    [c \in {"units", "structures", "resourceExtractors", "powerGenerators",
            "regFactories", "vtolFactories", "cyborgFactories", "researchCenters",
            "defenseStructures"} |-> [min |-> 1, max |-> 4]]

\* the MapInfo `maptools package info` prints for a map that meets every rule
GoodMapInfo ==
    [ name |-> <<"A", "l", "p", "h", "a", "_", "M", "a", "p">>,
      type |-> "skirmish",
      players |-> 2,
      tileset |-> "arizona",
      license |-> <<"CC-BY-3.0", "OR", "GPL-2.0-or-later">>,
      author |-> [name |-> <<"p", "a", "s", "t", "-", "d", "u", "e">>],
      created |-> <<"2", "0", "2", "0", "-", "0", "5", "-", "1", "7", " ", "1", "0", ":", "0", "0", ":", "0", "0">>,
      mapsize |-> [w |-> 64, h |-> 96],
      oilWells |-> 8,
      player |-> PlayerCounters,
      scavenger |-> [units |-> 3, structures |-> 5],
      balance |-> [startEquality |-> [c \in DOMAIN PlayerCounters |-> TRUE]],
      hq |-> <<[x |-> 4, y |-> 4], [x |-> 60, y |-> 90]>>,
      mapMod |-> FALSE,
      levelFormat |-> "json",
      mapFormat |-> "script",
      flatMapPackage |-> TRUE ]

\* a changed map directory: its path under the repository (top/rest), the exit
\* code of the inspection tool on it, and the MapInfo the tool prints
MapFolderAlpha ==
    [top |-> "maps", rest |-> "2c-Alpha", exit |-> 0, info |-> GoodMapInfo]

MapFolderBroken ==
    [top |-> "maps", rest |-> "4c-Broken", exit |-> 1, info |-> GoodMapInfo]

MapFolderCampaign ==
    [top |-> "maps", rest |-> "4c-Campaign", exit |-> 0,
     info |-> [GoodMapInfo EXCEPT !.name = <<"C", "a", "m", "p", "a", "i", "g", "n", "1">>, !.type = "campaign"]]

MapFolderDelta ==
    [top |-> "maps", rest |-> "8c-Delta", exit |-> 0,
     info |-> [GoodMapInfo EXCEPT !.name = <<"D", "e", "l", "t", "a", "-", "R", "i", "d", "g", "e">>, !.players = 8,
                                  !.hq = [i \in 1..8 |-> [x |-> i, y |-> i]]]]

MapFolderEcho ==
    [top |-> "maps", rest |-> "4c-Echo", exit |-> 0,
     info |-> [GoodMapInfo EXCEPT !.name = <<"E", "c", "h", "o", "_", "B", "a", "s", "e">>, !.players = 4,
                                  !.hq = [i \in 1..4 |-> [x |-> i, y |-> i]]]]

MapFolderOld ==
    [top |-> "maps", rest |-> "9c-Old", exit |-> 0,
     info |-> [GoodMapInfo EXCEPT !.name = <<"O", "l", "d", "M", "a", "p">>, !.created = <<"1", "9", "9", "8", "-", "1", "2", "-", "3", "1">>]]

\* a changed directory that is not a map directory
DocsFolder ==
    [top |-> "docs", rest |-> "", exit |-> 0, info |-> GoodMapInfo]

\* the map directories, in the path order `git diff --dirstat` lists them
MapFolders ==
    <<MapFolderAlpha, MapFolderBroken, MapFolderCampaign, MapFolderDelta, MapFolderEcho,
      MapFolderOld>>

\* the dirstat listings of at most n map directories
DirstatChoices(n) ==
    { s \in SeqsBetween(1..Len(MapFolders), 0, n) :
        \A i \in 1..(Len(s) - 1) : s[i] < s[i + 1] }

DirstatOf(s) == [i \in 1..Len(s) |-> MapFolders[s[i]]]

\* tag names the latest published release may carry
LastReleaseTags == { <<"v", "8">>, <<"l", "a", "t", "e", "s", "t">> }

\* ------------------------------------------------------------------------
\* Release Builder (process_map_repo.py)
\* ------------------------------------------------------------------------
\* RELEASE_VERSION_RE.match(tagname): ^v?(?P<major>\d+).*
RELEASE_VERSION_RE(tagname) ==
    LET off == IF Len(tagname) > 0 /\ tagname[1] = "v" THEN 1 ELSE 0
        n == DigitRun(tagname, off + 1)
    IN  [matched |-> n >= 1, major |-> SubSeq(tagname, off + 1, off + n)]

\* variant: the major version is stepped by two
NextTagname_skip(current_release_tagname) ==
    <<"v">> \o IntToDigits(DigitsToInt(RELEASE_VERSION_RE(current_release_tagname).major) + 2)

\* 'v' + str(int(major) + 1)
NextTagname(current_release_tagname) ==
    <<"v">> \o IntToDigits(DigitsToInt(RELEASE_VERSION_RE(current_release_tagname).major) + 1)

\* generate_next_release_details: the next tag name and the dict with the new
\* release entered, or ValueError
generate_next_release_details(current_release_tagname, releases) ==
    IF RELEASE_VERSION_RE(current_release_tagname).matched
        THEN [ raised |-> "",
               tagname |-> NextTagname(current_release_tagname),
               releases |-> SetKey(releases, NextTagname(current_release_tagname),
                                   [commits |-> << >>, assets |-> 0]) ]
        ELSE [raised |-> "ValueError", tagname |-> << >>, releases |-> releases]

\* re.match(r'^maps/.+', x)
IsMapFolder(x) == x.top = "maps" /\ x.rest # ""

\* [x for x in changedFolders if re.match(r'^maps/.+', x)]
RECURSIVE FilterMapFolders(_)
FilterMapFolders(folders) ==
    IF Len(folders) = 0 THEN << >>
    ELSE (IF IsMapFolder(Head(folders)) THEN <<Head(folders)>> ELSE << >>)
            \o FilterMapFolders(Tail(folders))

\* variant: only the assets the release already holds are held against the cap
NeedNewRelease_assetsonly(assets, num_changed) ==
    assets > MaxAssetsPerRelease

\* variant: the cap is applied to a release that holds nothing yet
NeedNewRelease_nofloor(assets, num_changed) ==
    (num_changed + assets) > MaxAssetsPerRelease

\* line 95: the current release is sealed before this commit
NeedNewRelease(assets, num_changed) ==
    assets > 0 /\ (num_changed + assets) > MaxAssetsPerRelease

\* re.sub(r'[^A-Za-z0-9\-_]', "_", name)
clean_map_name(name) ==
    [i \in 1..Len(name) |-> IF name[i] \in NameChars THEN name[i] ELSE "_"]

\* lines 38-42: the sha256 of the archive file; the archive holds the files of
\* the map directory as the working tree has them, and the salt entry if given
archive_hash(archive) == <<"sha256", archive.source, archive.salt>>

\* map_has_hash_collision(archive_path)['result']
map_has_hash_collision(archive) == FALSE

\* compress_map_folder(mapFolderFullPath, output_archive_path): the file
\* '<players>p-<clean name>.wz' holding the packaged directory
compress_map_folder(mapFolder) ==
    [ file |-> [players |-> mapFolder.info.players,
                name |-> clean_map_name(mapFolder.info.name)],
      source |-> mapFolder.rest,
      salt |-> << >> ]

\* open(path, 'w'): a file of that name is replaced
WriteArchive(assets, archive) ==
    {a \in assets : a.file # archive.file} \cup {archive}

\* lines 115-125: what becomes of one map directory
InspectAndValidate(mapFolder) ==
    IF mapFolder.exit # 0 THEN "tool failed"
    ELSE
        LET v == validate_map_info(mapFolder.info, TRUE, DefaultWarningOptions)
        IN  IF v.raised # "" THEN "raised"
            ELSE IF Len(v.errors) > 0 THEN "validation errors"
            ELSE "packaged"

\* InspectAndValidate, tabulated over the map directories of the repository
MapOutcomeTable ==
    [i \in 1..Len(MapFolders) |-> InspectAndValidate(MapFolders[i])]

MapOutcome(mapFolder) ==
    MapOutcomeTable[CHOOSE i \in 1..Len(MapFolders) : MapFolders[i] = mapFolder]

\* the loop over the changed map directories of one commit, lines 107-147:
\* st = [assets: the release's asset counter, files: its assets directory,
\*       raised: whether an exception left the loop]
RECURSIVE MapLoop(_, _, _)
MapLoop(folders, i, st) ==
    IF i > Len(folders) THEN st
    ELSE
        LET outcome == MapOutcome(folders[i])
        IN  IF outcome = "raised" THEN [st EXCEPT !.raised = TRUE]
            ELSE IF outcome = "packaged"
                THEN MapLoop(folders, i + 1,
                        [st EXCEPT !.assets = @ + 1,
                                   !.files = WriteArchive(@, compress_map_folder(folders[i]))])
            ELSE MapLoop(folders, i + 1, st)

\* variant: release.json lists only the commit just processed
ReleaseInfo_onlylast(commit, included_commits) ==
    [target_commitish |-> commit, included_commits |-> <<commit>>]

\* lines 150-153: the contents of release.json
ReleaseInfo(commit, included_commits) ==
    [target_commitish |-> commit, included_commits |-> included_commits]

NoReleaseJson == [target_commitish |-> 0, included_commits |-> << >>]

\* the release directory <output_folder>/<tag> as os.makedirs leaves it
ReleaseDir(out, tag) ==
    IF tag \in DOMAIN out THEN out[tag] ELSE [files |-> {}, release_json |-> NoReleaseJson]

\* lines 72-80: rev-list, then the first release of the run
StartRun(n, last) ==
    /\ pc = "start"
    /\ LET first == generate_next_release_details(last, << >>)
       IN  /\ pc' = IF first.raised # "" THEN "raised" ELSE "loop"
           /\ MAP_REPO_NEW_RELEASE_TAGNAME' = first.tagname
           /\ releasesGeneratedThisRun' = first.releases
    /\ commits' = [i \in 1..n |-> i]
    /\ last_release_version' = last
    /\ UNCHANGED <<cursor, releaseList, outputFolder, changedFolders, commitRelease>>
    /\ UNCHANGED notRelVars

\* one iteration of `for commit in commits`, lines 82-158
ProcessCommit(dirstat) ==
    /\ pc = "loop"
    /\ cursor < Len(commits)
    /\ LET commit == commits[cursor + 1]
           changed == FilterMapFolders(dirstat)
           current == MAP_REPO_NEW_RELEASE_TAGNAME
           seal == NeedNewRelease(releasesGeneratedThisRun[current].assets, Len(changed))
           next == IF seal
                     THEN generate_next_release_details(current, releasesGeneratedThisRun)
                     ELSE [raised |-> "", tagname |-> current,
                           releases |-> releasesGeneratedThisRun]
           tag == next.tagname
           listSealed == IF seal /\ ~InList(current, releaseList)
                           THEN Append(releaseList, current) ELSE releaseList
           withCommit == [next.releases EXCEPT ![tag].commits = Append(@, commit)]
           dir == ReleaseDir(outputFolder, tag)
           done == MapLoop(changed, 1,
                       [assets |-> withCommit[tag].assets, files |-> dir.files, raised |-> FALSE])
           counted == [withCommit EXCEPT ![tag].assets = done.assets]
           release_info == ReleaseInfo(commit, counted[tag].commits)
       IN  /\ cursor' = cursor + 1
           /\ changedFolders' = changed
           /\ IF Len(changed) = 0
                THEN UNCHANGED <<pc, MAP_REPO_NEW_RELEASE_TAGNAME, releasesGeneratedThisRun,
                                 releaseList, outputFolder, commitRelease>>
                ELSE
                    /\ MAP_REPO_NEW_RELEASE_TAGNAME' = tag
                    /\ releasesGeneratedThisRun' = counted
                    /\ commitRelease' = SetKey(commitRelease, commit, tag)
                    /\ IF done.raised
                        THEN /\ pc' = "raised"
                             /\ releaseList' = listSealed
                             /\ outputFolder' = SetKey(outputFolder, tag,
                                                    [dir EXCEPT !.files = done.files])
                        ELSE /\ pc' = pc
                             /\ releaseList' =
                                    IF done.assets > 0 /\ ~InList(tag, listSealed)
                                        THEN Append(listSealed, tag) ELSE listSealed
                             /\ outputFolder' = SetKey(outputFolder, tag,
                                                    [files |-> done.files,
                                                     release_json |-> release_info])
    /\ UNCHANGED <<commits, last_release_version>>
    /\ UNCHANGED notRelVars

\* line 160: return releaseList
ReturnReleases ==
    /\ pc = "loop"
    /\ cursor = Len(commits)
    /\ pc' = "done"
    /\ UNCHANGED <<commits, cursor, last_release_version, MAP_REPO_NEW_RELEASE_TAGNAME,
                   releasesGeneratedThisRun, releaseList, outputFolder, changedFolders,
                   commitRelease>>
    /\ UNCHANGED notRelVars

\* ------------------------------------------------------------------------
\* Release Uploader: scripts/funcs/process_map_repo.py, upload_generated_releases,
\* scripts/funcs/dry_run_wrappers.py and scripts/git_authenticated_push.py
\* ------------------------------------------------------------------------
\* the two pipeline runs that publish to the same map repository
Runs == {1, 2}

\* the releases list generate_releases_for_maprepo returns for n releases with
\* assets, started from the tag last
RECURSIVE GeneratedTags(_, _)
GeneratedTags(last, n) ==
    IF n = 0 THEN << >>
    ELSE <<NextTagname(last)>> \o GeneratedTags(NextTagname(last), n - 1)

\* tagName of `gh release view` without a tag: the latest release of the host
LatestTag(rem) ==
    CHOOSE t \in DOMAIN rem :
        \A o \in DOMAIN rem :
            DigitsToInt(RELEASE_VERSION_RE(o).major) <= DigitsToInt(RELEASE_VERSION_RE(t).major)

\* what the two read-only calls of lines 261 and 270 gave
NoLookup == [view_rc |-> 0, list_rc |-> 0, is_list |-> FALSE, len |-> 0]

\* variant: a successful list call is taken as "no releases"
ConfirmNoReleases_anylist(list_rc, is_list, len) ==
    IF list_rc # 0 THEN "RuntimeError" ELSE ""

\* lines 271-280: the confirming call after the latest-release lookup failed
ConfirmNoReleases(list_rc, is_list, len) ==
    IF list_rc # 0 THEN "RuntimeError"
    ELSE IF ~is_list THEN "RuntimeError"
    ELSE IF len > 0 THEN "RuntimeError"
    ELSE ""

RemoveKey(d, k) == [x \in (DOMAIN d) \ {k} |-> d[x]]

\* variant: the command is run whatever dry_run says
subprocess_run_modification_cmd_wrapper_always(dry_run, returncode) ==
    [executed |-> TRUE, returncode |-> returncode]

\* dry_run_wrappers.py lines 8-14; returncode is the exit code the command
\* gives when it is run
subprocess_run_modification_cmd_wrapper(dry_run, returncode) ==
    IF ~dry_run
        THEN [executed |-> TRUE, returncode |-> returncode]
        ELSE [executed |-> FALSE, returncode |-> 0]

\* `gh release create <tag> ...` on the host: refused when the tag has a
\* release; otherwise it creates the release and uploads the archives, or fails
\* before creating anything, or fails after the release was created
GhReleaseCreate(rem, r, tag, outcome) ==
    IF tag \in DOMAIN rem THEN [remote |-> rem, returncode |-> 1]
    ELSE IF outcome = "created"
        THEN [remote |-> SetKey(rem, tag, [by |-> r, complete |-> TRUE]), returncode |-> 0]
    ELSE IF outcome = "partial"
        THEN [remote |-> SetKey(rem, tag, [by |-> r, complete |-> FALSE]), returncode |-> 1]
    ELSE [remote |-> rem, returncode |-> 1]

\* `gh release delete <tag> --yes` on the host
GhReleaseDelete(rem, tag, ok) ==
    IF ok /\ tag \in DOMAIN rem THEN RemoveKey(rem, tag) ELSE rem

\* a mutating external call, as it is logged when it is executed
Call(r, op, tag, dry_run) == [run |-> r, op |-> op, tag |-> tag, dry_run |-> dry_run]

NotStarted ==
    [pc |-> "idle", lookup |-> NoLookup, last_release_version |-> << >>,
     releases |-> << >>, no_wz |-> 0, dry_run |-> FALSE, provider |-> FALSE,
     i |-> 0, release_upload_dates |-> << >>, raised |-> ""]

\* upload_generated_releases raises: the loop is left, nothing is returned
Raise(u, exc) == [u EXCEPT !.pc = "raised", !.raised = exc]

\* process_map_repo lines 260-285: the latest release of the host, or 'v0'
\* when the host is known to have none. view_ok and list_rc say whether the
\* two calls get through to the host, is_list whether the second answer is a
\* JSON array.
LookupLatestRelease(r, view_ok, list_rc, is_list) ==
    LET u == uploads[r]
        view_rc == IF view_ok /\ remote # << >> THEN 0 ELSE 1
        len == Cardinality(DOMAIN remote)
        confirm == ConfirmNoReleases(list_rc, is_list, len)
        answers == [view_rc |-> view_rc, list_rc |-> list_rc,
                    is_list |-> list_rc = 0 /\ is_list,
                    len |-> IF list_rc = 0 /\ is_list THEN len ELSE 0]
    IN  /\ u.pc = "idle"
        /\ uploads' = [uploads EXCEPT ![r] =
                IF view_rc = 0
                    THEN [u EXCEPT !.pc = "looked",
                                   !.lookup = [NoLookup EXCEPT !.view_rc = 0],
                                   !.last_release_version = LatestTag(remote)]
                ELSE IF confirm # ""
                    THEN [Raise(u, confirm) EXCEPT !.lookup = answers]
                ELSE [u EXCEPT !.pc = "looked",
                               !.lookup = answers,
                               !.last_release_version = <<"v", "0">>]]
        /\ UNCHANGED <<remote, calls, published, push>>
        /\ UNCHANGED notUplVars

\* process_map_repo lines 288-291: generate_releases_for_maprepo gave n
\* releases; upload_generated_releases line 182, and its for statement when
\* the list is empty (line 241)
UploadStart(r, n, no_wz, dry_run, provider) ==
    /\ uploads[r].pc = "looked"
    /\ uploads' = [uploads EXCEPT ![r] =
            [uploads[r] EXCEPT
                !.pc = IF n = 0 THEN "returned" ELSE "check",
                !.releases = GeneratedTags(uploads[r].last_release_version, n),
                !.no_wz = no_wz, !.dry_run = dry_run, !.provider = provider,
                !.i = IF n = 0 THEN 0 ELSE 1]]
    /\ UNCHANGED <<remote, calls, published, push>>
    /\ UNCHANGED notUplVars

\* variant: the release is not looked up on the host
SanityCheck_noview(u, rem) ==
    IF u.no_wz = u.i THEN "ValueError: no .wz map packages" ELSE ""

\* lines 198-205: the two sanity checks, "" when both pass; `gh release view
\* <tag>` exits with 0 when the host has a release of that tag
SanityCheck(u, rem) ==
    IF u.no_wz = u.i THEN "ValueError: no .wz map packages"
    ELSE IF u.releases[u.i] \in DOMAIN rem THEN "ValueError: release already exists"
    ELSE ""

\* variant: the exit code of the create call is not looked at
AfterCreate_ignore(returncode) == "date"

\* line 222: where the loop body goes after the create call
AfterCreate(returncode) == IF returncode # 0 THEN "delete" ELSE "date"

\* lines 184-205: release notes, the .wz sanity check and `gh release view`
CheckRelease(r) ==
    LET u == uploads[r]
    IN  /\ u.pc = "check"
        /\ uploads' = [uploads EXCEPT ![r] =
                IF SanityCheck(u, remote) # ""
                    THEN Raise(u, SanityCheck(u, remote))
                    ELSE [u EXCEPT !.pc = "create"]]
        /\ UNCHANGED <<remote, calls, published, push>>
        /\ UNCHANGED notUplVars

\* lines 207-222: the access token, then `gh release create`
CreateRelease(r, token, outcome) ==
    LET u == uploads[r]
        release == u.releases[u.i]
        needs_token == u.provider /\ ~u.dry_run
        tokenCall == IF needs_token THEN {Call(r, "token", release, u.dry_run)} ELSE {}
        would == GhReleaseCreate(remote, r, release, outcome)
        result == subprocess_run_modification_cmd_wrapper(u.dry_run, would.returncode)
    IN  /\ u.pc = "create"
        /\ IF needs_token /\ token = "None"
             THEN \* line 214 names MapSubmissionApprovalResult, which this module does not define
                  /\ uploads' = [uploads EXCEPT ![r] = Raise(u, "NameError")]
                  /\ calls' = calls \cup tokenCall
                  /\ UNCHANGED <<remote, published>>
             ELSE /\ uploads' = [uploads EXCEPT ![r] =
                        [u EXCEPT !.pc = AfterCreate(result.returncode)]]
                  /\ calls' = calls \cup tokenCall \cup
                        (IF result.executed THEN {Call(r, "create", release, u.dry_run)} ELSE {})
                  /\ remote' = IF result.executed THEN would.remote ELSE remote
                  /\ published' = IF result.executed /\ result.returncode = 0
                                    THEN published \cup {<<r, release>>} ELSE published
        /\ UNCHANGED push
        /\ UNCHANGED notUplVars

\* lines 223-224: `gh release delete`, then the ValueError
DeleteRelease(r, ok) ==
    LET u == uploads[r]
        release == u.releases[u.i]
        result == subprocess_run_modification_cmd_wrapper(u.dry_run, IF ok THEN 0 ELSE 1)
    IN  /\ u.pc = "delete"
        /\ uploads' = [uploads EXCEPT ![r] = Raise(u, "ValueError: gh release create failed")]
        /\ calls' = calls \cup
                (IF result.executed THEN {Call(r, "delete", release, u.dry_run)} ELSE {})
        /\ remote' = IF result.executed THEN GhReleaseDelete(remote, release, ok) ELSE remote
        /\ UNCHANGED <<published, push>>
        /\ UNCHANGED notUplVars

\* lines 171-178: `gh release view <tag> --json publishedAt`, check=True;
\* host_rc is the exit code of the command when the host holds the release.
\* A date is written by the release it belongs to and where it was taken from.
get_map_release_upload_date(rem, release, host_rc) ==
    IF release \in DOMAIN rem /\ host_rc = 0
        THEN [raised |-> "", date |-> [release |-> release, from |-> "publishedAt"]]
        ELSE [raised |-> "CalledProcessError", date |-> [release |-> release, from |-> ""]]

\* variant: the exception of the fetch is not caught
upload_date_or_now_uncaught(fetched) == fetched

\* lines 231-237: time.gmtime() unless the fetch returns a date
upload_date_or_now(fetched) ==
    IF fetched.raised = "CalledProcessError"
        THEN [raised |-> "", date |-> [fetched.date EXCEPT !.from = "gmtime"]]
        ELSE fetched

\* lines 231-241: the upload date, the next release or the return
FetchUploadDate(r, host_rc) ==
    LET u == uploads[r]
        release == u.releases[u.i]
        dated == upload_date_or_now(get_map_release_upload_date(remote, release, host_rc))
    IN  /\ u.pc = "date"
        /\ uploads' = [uploads EXCEPT ![r] =
                IF dated.raised # "" THEN Raise(u, dated.raised)
                ELSE [u EXCEPT !.release_upload_dates = Append(@, dated.date),
                               !.i = IF u.i = Len(u.releases) THEN u.i ELSE u.i + 1,
                               !.pc = IF u.i = Len(u.releases) THEN "returned" ELSE "check"]]
        /\ UNCHANGED <<remote, calls, published, push>>
        /\ UNCHANGED notUplVars

NoPush == [dry_run |-> FALSE, result |-> "none"]

\* git_authenticated_push.py lines 14-45
handle_gh_git_authenticated_push(dry_run, provider, token, push_ok) ==
    LET needs_token == provider /\ ~dry_run
        tokenCall == IF needs_token THEN {Call(0, "token", << >>, dry_run)} ELSE {}
    IN  /\ push = NoPush
        /\ IF needs_token /\ token = "None"
             THEN /\ calls' = calls \cup tokenCall
                  /\ push' = [dry_run |-> dry_run, result |-> "False"]
             ELSE IF ~dry_run
                THEN /\ calls' = calls \cup tokenCall \cup {Call(0, "push", << >>, dry_run)}
                     /\ push' = [dry_run |-> dry_run,
                                 result |-> IF push_ok THEN "True" ELSE "False"]
                ELSE /\ calls' = calls
                     /\ push' = [dry_run |-> dry_run, result |-> "True"]
        /\ UNCHANGED <<remote, uploads, published>>
        /\ UNCHANGED notUplVars

\* no pipeline run has reached upload_generated_releases
UploaderIdle ==
    /\ remote = << >>
    /\ uploads = [r \in Runs |-> NotStarted]
    /\ calls = {}
    /\ published = {}
    /\ push = NoPush

TokenOutcomes == {"token", "None"}

CreateOutcomes == {"created", "partial", "failed"}

NextUpload ==
    \/ \E r \in Runs : \E view_ok \in BOOLEAN : \E list_rc \in {0, 1} : \E is_list \in BOOLEAN :
            LookupLatestRelease(r, view_ok, list_rc, is_list)
    \/ \E r \in Runs : \E n \in 0..MaxUploadReleases : \E no_wz \in 0..n :
        \E dry_run \in BOOLEAN : \E provider \in BOOLEAN :
            UploadStart(r, n, no_wz, dry_run, provider)
    \/ \E r \in Runs : CheckRelease(r)
    \/ \E r \in Runs : \E token \in TokenOutcomes : \E outcome \in CreateOutcomes :
            CreateRelease(r, token, outcome)
    \/ \E r \in Runs : \E ok \in BOOLEAN : DeleteRelease(r, ok)
    \/ \E r \in Runs : FetchUploadDate(r, 0)
    \/ \E dry_run \in BOOLEAN : \E provider \in BOOLEAN :
        \E token \in TokenOutcomes : \E push_ok \in BOOLEAN :
            handle_gh_git_authenticated_push(dry_run, provider, token, push_ok)

\* one run of process_map_repo alone on the repository, with a host that can
\* fail to answer the request for a release's publish date
NextUploadAlone ==
    \/ \E view_ok \in BOOLEAN : \E list_rc \in {0, 1} : \E is_list \in BOOLEAN :
            LookupLatestRelease(1, view_ok, list_rc, is_list)
    \/ \E n \in 0..MaxUploadReleases : \E no_wz \in 0..n :
        \E dry_run \in BOOLEAN : \E provider \in BOOLEAN :
            UploadStart(1, n, no_wz, dry_run, provider)
    \/ CheckRelease(1)
    \/ \E token \in TokenOutcomes : \E outcome \in CreateOutcomes :
            CreateRelease(1, token, outcome)
    \/ \E ok \in BOOLEAN : DeleteRelease(1, ok)
    \/ \E host_rc \in {0, 1} : FetchUploadDate(1, host_rc)
    \/ \E dry_run \in BOOLEAN : \E provider \in BOOLEAN :
        \E token \in TokenOutcomes : \E push_ok \in BOOLEAN :
            handle_gh_git_authenticated_push(dry_run, provider, token, push_ok)

\* ------------------------------------------------------------------------
\* Database ingestion: scripts/funcs/update_map_db.py, update_map_db, as
\* scripts/process_new_maps.py runs it
\* ------------------------------------------------------------------------
\* the map repositories of map-repos.json, by position
Repos == {1, 2}

\* release tags are written by their major version here: n stands for 'v<n>'
\* the one map of release `tag` of repository `repo`, as a database record
ReleaseRecord(repo, tag) == [hash |-> IF repo = 1 THEN "h1" ELSE "h2", rev |-> 1]

\* items[from..to] of the list 1, 2, ..., n
Range(from, to) == [k \in 1..(IF to >= from THEN to - from + 1 ELSE 0) |-> from + k - 1]

\* variant: the entry `since` is kept at the head of the result
SinceTag_inclusive(list, since) ==
    IF \E k \in 1..Len(list) : list[k] = since
        THEN LET at == CHOOSE k \in 1..Len(list) : list[k] = since
             IN  SubSeq(list, at, Len(list))
        ELSE list

\* items after the entry `since` of a list that is in ascending order; the
\* whole list when `since` is not in it (lines 189-194 and 447-452)
SinceTag(list, since) ==
    IF \E k \in 1..Len(list) : list[k] = since
        THEN LET at == CHOOSE k \in 1..Len(list) : list[k] = since
             IN  SubSeq(list, at + 1, Len(list))
        ELSE list

\* get_github_releases, lines 153-196: the releases of the host since the
\* tag, oldest first; status 200 is "ok"
get_github_releases(hosted_count, status, since_release_tag) ==
    IF status = "http error" THEN [raised |-> "GithubAPIFetchException", releases |-> << >>]
    ELSE IF status = "non-list" THEN [raised |-> "", releases |-> << >>]
    ELSE [raised |-> "", releases |-> SinceTag(Range(1, hosted_count), since_release_tag)]

\* lines 430-463: new_release_tags of one repository
NewReleaseTags(hosted_count, status, last_release, dry_run, on_disk_count) ==
    LET listed == get_github_releases(hosted_count, status, last_release)
        on_disk_releases ==
            SinceTag(Range(hosted_count + 1, hosted_count + on_disk_count), last_release)
    IN  IF listed.raised # "" THEN << >>
        ELSE IF dry_run THEN listed.releases \o on_disk_releases
        ELSE listed.releases

\* variant: the pointer moves to the oldest of the new releases
NewLastRelease_first(last_release, item) ==
    IF item # << >> THEN item[1] ELSE last_release

\* lines 471-475: item[-1] if item else None, and the assignment
NewLastRelease(last_release, item) ==
    IF item # << >> THEN item[Len(item)] ELSE last_release

\* line 396: maps_added of all repositories, in repository order
RECURSIVE MapsAddedFrom(_, _)
MapsAddedFrom(map_repo_new_releases, repo) ==
    IF repo > Len(map_repo_new_releases) THEN << >>
    ELSE [k \in 1..Len(map_repo_new_releases[repo]) |->
                <<repo, map_repo_new_releases[repo][k]>>]
         \o MapsAddedFrom(map_repo_new_releases, repo + 1)

\* publish_maprepo_release_to_mapassets_database for the first n of the maps
RECURSIVE StoreAssets(_, _, _)
StoreAssets(store, added, n) ==
    IF n = 0 THEN store
    ELSE LET rec == ReleaseRecord(added[n][1], added[n][2])
         IN  [StoreAssets(store, added, n - 1) EXCEPT ![rec.hash] = rec]

\* no update_map_db run has finished yet
NoRun == [finished |-> FALSE, hosted |-> [r \in Repos |-> 0], listed |-> FALSE]

IngestNotStarted ==
    [pc |-> "idle", dry_run |-> FALSE, on_disk |-> [r \in Repos |-> 0], i |-> 0,
     map_repos |-> [r \in Repos |-> 0], map_repo_new_releases |-> << >>,
     listing |-> << >>, maps_added |-> << >>]

\* process_map_repo of an earlier pipeline step published a release of repo
PublishHostedRelease(repo) ==
    /\ ingest.pc = "idle"
    /\ hosted[repo] < MaxHostedReleases
    /\ hosted' = [hosted EXCEPT ![repo] = @ + 1]
    /\ UNCHANGED <<map_repos_json, ingest, last_run>>
    /\ UNCHANGED notIngVars

\* process_new_maps lines 58-61 (load_map_repos_list) and update_map_db lines
\* 412-426; in a dry run on_disk counts the generated, unpublished releases
StartIngest(dry_run, on_disk) ==
    /\ ingest.pc = "idle"
    /\ dry_run \/ on_disk = [r \in Repos |-> 0]
    /\ ingest' = [IngestNotStarted EXCEPT
                    !.pc = "listing", !.dry_run = dry_run, !.on_disk = on_disk,
                    !.i = 1, !.map_repos = map_repos_json]
    /\ UNCHANGED <<hosted, map_repos_json, last_run>>
    /\ UNCHANGED notIngVars

\* update_map_db lines 428-463: one iteration of the listing loop
ListReleases(status) ==
    /\ ingest.pc = "listing"
    /\ LET repo == ingest.i
           new_release_tags ==
                NewReleaseTags(hosted[repo], status, ingest.map_repos[repo],
                               ingest.dry_run, ingest.on_disk[repo])
       IN  ingest' = [ingest EXCEPT
                        !.map_repo_new_releases = Append(@, new_release_tags),
                        !.listing = Append(@, status),
                        !.i = @ + 1,
                        !.pc = IF repo = Cardinality(Repos) THEN "publish" ELSE "listing"]
    /\ UNCHANGED <<hosted, map_repos_json, last_run>>
    /\ UNCHANGED notIngVars

\* update_map_db line 468, publish_map_releases_to_mapdatabase: the asset store
\* files of every new release, then add_to_mapdatabase_index; fail_at > 0 is
\* the map at which fetching a release raises CalledProcessError
PublishReleases(fail_at) ==
    /\ ingest.pc = "publish"
    /\ LET added == MapsAddedFrom(ingest.map_repo_new_releases, 1)
           new_maps == [k \in 1..Len(added) |-> ReleaseRecord(added[k][1], added[k][2])]
           written == AddLoop(pages, get_current_index_page(pages), new_maps, 0, clock)
       IN  /\ fail_at <= Len(added)
           /\ Len(ConcatMaps(pages)) + Len(added) <= MaxIndexRecords
           /\ IF fail_at > 0
                THEN /\ ingest' = [ingest EXCEPT !.pc = "raised"]
                     /\ assetStore' = StoreAssets(assetStore, added, fail_at - 1)
                     /\ UNCHANGED <<pages, versionsFile>>
                ELSE /\ ingest' = [ingest EXCEPT !.pc = "published", !.maps_added = added]
                     /\ assetStore' = StoreAssets(assetStore, added, Len(added))
                     /\ pages' = written
                     /\ versionsFile' = update_mapdatabase_versions_file(written)
           /\ lastOp' = "add"
           /\ lastNew' = IF fail_at > 0 THEN << >> ELSE new_maps
    /\ UNCHANGED <<clock, hosted, map_repos_json, last_run>>
    /\ UNCHANGED <<relVars, uplVars, miVars, pkVars, vlVars>>

\* update_map_db lines 470-477: the 'last_release' entries, and the return
UpdateLastReleases ==
    /\ ingest.pc = "published"
    /\ ingest' = [ingest EXCEPT
                    !.pc = "returned",
                    !.map_repos = [r \in Repos |->
                        NewLastRelease(ingest.map_repos[r], ingest.map_repo_new_releases[r])]]
    /\ UNCHANGED <<hosted, map_repos_json, last_run>>
    /\ UNCHANGED notIngVars

\* process_new_maps lines 83-86: map-repos.json is written; the pipeline run
\* is over. The working copy a dry run leaves is not pushed, and is followed
\* no further here.
WriteMapReposJson ==
    /\ ingest.pc = "returned"
    /\ map_repos_json' = ingest.map_repos
    /\ ingest' = IF ingest.dry_run
                    THEN [IngestNotStarted EXCEPT !.pc = "dry run over"]
                    ELSE IngestNotStarted
    /\ last_run' = IF ingest.dry_run THEN last_run
                    ELSE [finished |-> TRUE, hosted |-> hosted,
                          listed |-> \A r \in Repos : ingest.listing[r] = "ok"]
    /\ UNCHANGED hosted
    /\ UNCHANGED notIngVars

\* map-repos.json lists the repositories with 'v0'; nothing is hosted
IngestIdle ==
    /\ hosted = [r \in Repos |-> 0]
    /\ map_repos_json = [r \in Repos |-> 0]
    /\ ingest = IngestNotStarted
    /\ last_run = NoRun

ListingStatuses == {"ok", "http error", "non-list"}

NextIngest ==
    \/ \E repo \in Repos : PublishHostedRelease(repo)
    \/ \E dry_run \in BOOLEAN : \E on_disk \in [Repos -> 0..1] :
            StartIngest(dry_run, on_disk)
    \/ \E status \in ListingStatuses : ListReleases(status)
    \/ \E fail_at \in 0..MaxIndexRecords : PublishReleases(fail_at)
    \/ UpdateLastReleases
    \/ WriteMapReposJson

\* ------------------------------------------------------------------------
\* MapInfo documents put to validate_map_info and to the normalizer
\* (scripts/funcs/map_funcs.py)
\* ------------------------------------------------------------------------
\* ValidateMapWarningOptions with every warning switched off
NoWarningOptions == [k \in DOMAIN DefaultWarningOptions |-> FALSE]

\* one way a MapInfo document departs from GoodMapInfo; 0 is no departure
Departures == 0..34

Depart(info, k) ==
    CASE k = 1 -> [info EXCEPT !.name = << >>]
      [] k = 2 -> RemoveKey(info, "name")
      [] k = 3 -> [info EXCEPT !.name = [i \in 1..(MAX_ALLOWED_MAP_NAME_LENGTH + 1) |-> "a"]]
      [] k = 4 -> [info EXCEPT !.name = <<"b", "a", "d", " ", "n", "a", "m", "e", "!">>]
      [] k = 5 -> [info EXCEPT !.name = <<"a", "b", "c">>]
      [] k = 6 -> [info EXCEPT !.type = "campaign"]
      [] k = 7 -> [info EXCEPT !.players = 1]
      [] k = 8 -> [info EXCEPT !.players = 11]
      [] k = 9 -> [info EXCEPT !.players = 10]
      [] k = 10 -> [info EXCEPT !.tileset = "mars"]
      [] k = 11 -> [info EXCEPT !.license = <<"MIT">>]
      [] k = 12 -> [info EXCEPT !.license = <<"CC-BY-3.0", "OR">>]
      [] k = 13 -> RemoveKey(info, "license")
      [] k = 14 -> [info EXCEPT !.license = <<"GPL-2.0-or-later", "OR", "CC-BY-SA-4.0">>]
      [] k = 15 -> RemoveKey(info, "author")
      [] k = 16 -> SetKey(RemoveKey(info, "author"), "additionalAuthors",
                          <<[name |-> <<"B">>]>>)
      [] k = 17 -> [info EXCEPT !.author =
                        [name |-> [i \in 1..(MAX_ALLOWED_AUTHOR_NAME_LENGTH + 1) |-> "a"]]]
      [] k = 18 -> [info EXCEPT !.author = [name |-> << >>]]
      [] k = 19 -> RemoveKey(info, "created")
      [] k = 20 -> [info EXCEPT !.created = <<"2", "0", "2", "1", "-", "0", "2", "-", "3", "0">>]
      [] k = 21 -> [info EXCEPT !.created = <<"1", "9", "9", "8", "-", "1", "2", "-", "3", "1">>]
      [] k = 22 -> [info EXCEPT !.created = <<"1", "7", "/", "0", "5", "/", "2", "0", "2", "0">>]
      [] k = 23 -> [info EXCEPT !.created = <<"2", "0", "2", "7", "-", "0", "1", "-", "0", "1">>]
      [] k = 24 -> [info EXCEPT !.mapsize.w = 0]
      [] k = 25 -> [info EXCEPT !.mapsize.h = 257]
      [] k = 26 -> SetKey([info EXCEPT !.mapMod = TRUE], "modTypes",
                          <<"gamemodels", "datasets">>)
      [] k = 27 -> SetKey([info EXCEPT !.mapMod = TRUE], "modTypes", <<"textures">>)
      [] k = 28 -> [info EXCEPT !.mapMod = TRUE]
      [] k = 29 -> [info EXCEPT !.levelFormat = "lev"]
      [] k = 30 -> [info EXCEPT !.mapFormat = "binary"]
      [] k = 31 -> [info EXCEPT !.flatMapPackage = FALSE]
      [] k = 32 -> SetKey([info EXCEPT !.mapMod = TRUE], "modTypes", <<"datasets", "stats">>)
      [] k = 33 -> SetKey([info EXCEPT !.mapMod = TRUE], "modTypes",
                          <<"textures", "gamemodels", "datasets">>)
      [] k = 34 -> SetKey(info, "modTypes", <<"textures">>)
      [] OTHER -> info

\* GoodMapInfo with up to two departures
SampleMapInfos ==
    {Depart(Depart(GoodMapInfo, j), k) : j \in Departures, k \in Departures}

NoResult == [raised |-> "not called"]

\* validate_map_info(map_info_json, enforce_format_checks, warning_options)
ValidateCall ==
    /\ mi_call = "none"
    /\ mi_call' = "validate"
    /\ mi_result' = validate_map_info(mi_input, mi_args.enforce_format_checks,
                                      mi_args.warning_options)
    /\ UNCHANGED <<mi_input, mi_args>>
    /\ UNCHANGED notMiVars

\* ------------------------------------------------------------------------
\* Metadata Normalizer (map_funcs.py)
\* ------------------------------------------------------------------------
\* set(s) for a str s: the set of its characters, each a string of length one
CharsOf(s) == {<<s[i]>> : i \in 1..Len(s)}

\* lines 256-260, the loop over additionalAuthors from position i on
RECURSIVE AuthorLoop(_, _, _, _)
AuthorLoop(additionalAuthors, i, author_list, seen_authors) ==
    IF i > Len(additionalAuthors) THEN author_list
    ELSE
        LET author_name == additionalAuthors[i].name
        IN  IF Len(author_name) > 0 /\ author_name \notin seen_authors
            THEN AuthorLoop(additionalAuthors, i + 1, Append(author_list, author_name),
                            seen_authors \cup {author_name})
            ELSE AuthorLoop(additionalAuthors, i + 1, author_list, seen_authors)

\* lines 253-261: the list of authors when additionalAuthors is present
AuthorList(info) ==
    AuthorLoop(info.additionalAuthors, 1, <<info.author.name>>, CharsOf(info.author.name))

\* convert_map_info_date_to_yyyy_mm_dd, lines 236-241, for a date that matches
convert_map_info_date_to_yyyy_mm_dd(map_info_date) ==
    LET m == DATE_FORMAT_RE(map_info_date)
    IN  m.year \o <<"-">> \o m.month \o <<"-">> \o m.day

\* the keys of player_balance and the MapInfo counters they are taken from
BalanceKeys ==
    << <<"units", "units">>, <<"structs", "structures">>,
       <<"resourceExtr", "resourceExtractors">>, <<"pwrGen", "powerGenerators">>,
       <<"regFact", "regFactories">>, <<"vtolFact", "vtolFactories">>,
       <<"cyborgFact", "cyborgFactories">>, <<"researchCent", "researchCenters">>,
       <<"defStruct", "defenseStructures">> >>

\* lines 268-280
PlayerBalance(info) ==
    [k \in {BalanceKeys[i][1] : i \in 1..Len(BalanceKeys)} |->
        LET src == BalanceKeys[CHOOSE i \in 1..Len(BalanceKeys) : BalanceKeys[i][1] = k][2]
        IN  [eq  |-> info.balance.startEquality[src],
             min |-> info.player[src].min,
             max |-> info.player[src].max]]

\* line 281
HQList(info) ==
    [i \in 1..Len(info.hq) |->
        IF Has(info.hq[i], "x") /\ Has(info.hq[i], "y")
        THEN <<info.hq[i].x, info.hq[i].y>> ELSE << >>]

\* the optional entries of the output, lines 249-261, 263-264 and 282-283
WithAuthor(output, info) ==
    IF Has(info, "additionalAuthors") THEN SetKey(output, "author", AuthorList(info))
    ELSE IF Has(info, "author") THEN SetKey(output, "author", info.author.name)
    ELSE output

WithCreated(output, info) ==
    IF Has(info, "created")
    THEN SetKey(output, "created", convert_map_info_date_to_yyyy_mm_dd(info.created))
    ELSE output

\* variant: the mod entry is written whatever mapMod is
WithMod_always(output, info) ==
    SetKey(output, "mod", info.mapMod)

WithMod(output, info) ==
    IF info.mapMod THEN SetKey(output, "mod", info.mapMod) ELSE output

\* the keys of the OrderedDict in the order of their insertion
OutputOrder(info) ==
    <<"name", "slots", "tileset">>
    \o (IF Has(info, "additionalAuthors") \/ Has(info, "author") THEN <<"author">> ELSE << >>)
    \o <<"license">>
    \o (IF Has(info, "created") THEN <<"created">> ELSE << >>)
    \o <<"size", "scavs", "oilWells", "player", "hq">>
    \o (IF info.mapMod THEN <<"mod">> ELSE << >>)
    \o <<"download">>

\* the exception convert_map_info_json_to_map_database_json raises, "" if none
ConvertRaises(info) ==
    IF \E k \in {"name", "players", "tileset"} : ~Has(info, k) THEN "KeyError"
    ELSE IF Has(info, "additionalAuthors") /\ ~Has(info, "author") THEN "KeyError"
    ELSE IF ~Has(info, "license") THEN "KeyError"
    ELSE IF Has(info, "created") /\ ~DATE_FORMAT_RE(info.created).matched THEN "ValueError"
    ELSE IF \E k \in {"mapsize", "scavenger", "oilWells", "balance", "player", "hq",
                      "mapMod", "mapFormat"} : ~Has(info, k) THEN "KeyError"
    ELSE ""

\* convert_map_info_json_to_map_database_json, lines 244-287
convert_map_info_json_to_map_database_json(info) ==
    IF ConvertRaises(info) # "" THEN [raised |-> ConvertRaises(info)]
    ELSE
        [raised |-> "",
         order  |-> OutputOrder(info),
         output |->
            WithMod(WithCreated(WithAuthor(
                [name     |-> info.name,
                 slots    |-> info.players,
                 tileset  |-> info.tileset,
                 license  |-> info.license,
                 size     |-> [w |-> info.mapsize.w, h |-> info.mapsize.h],
                 scavs    |-> info.scavenger.units + info.scavenger.structures,
                 oilWells |-> info.oilWells,
                 player   |-> PlayerBalance(info),
                 hq       |-> HQList(info),
                 download |-> [type |-> info.mapFormat]],
                info), info), info)]

\* author names of the sampled documents
PrimaryNames == { <<"A">>, <<"A", "l">> }

AdditionalNames == { << >>, <<"A">>, <<"B">>, <<"A", "l">> }

MaxAdditionalAuthors == 3

\* GoodMapInfo with a primary author and a list of additional authors
AuthorSamples ==
    { SetKey([GoodMapInfo EXCEPT !.author = [name |-> p]], "additionalAuthors",
             [i \in 1..Len(names) |-> [name |-> names[i]]]) :
        p \in PrimaryNames,
        names \in UNION {[1..n -> AdditionalNames] : n \in 0..MaxAdditionalAuthors} }

\* convert_map_info_json_to_map_database_json(map_info_json)
ConvertCall ==
    /\ mi_call = "none"
    /\ mi_call' = "convert"
    /\ mi_result' = convert_map_info_json_to_map_database_json(mi_input)
    /\ UNCHANGED <<mi_input, mi_args>>
    /\ UNCHANGED notMiVars

\* a second call of the normalizer on the document the first call was given;
\* the document is passed by reference and the function assigns to no part of it
ConvertAgain ==
    /\ mi_call = "convert"
    /\ mi_call' = "convert twice"
    /\ mi_result' = [first  |-> mi_result,
                     second |-> convert_map_info_json_to_map_database_json(mi_input)]
    /\ UNCHANGED <<mi_input, mi_args>>
    /\ UNCHANGED notMiVars

\* neither function has been called; the arguments are at hand
MapInfoAtHand(infos) ==
    /\ mi_call = "none"
    /\ mi_input \in infos
    /\ mi_args \in [enforce_format_checks : BOOLEAN,
                    warning_options : {DefaultWarningOptions, NoWarningOptions}]
    /\ mi_result = NoResult

MapInfoIdle ==
    /\ mi_call = "none"
    /\ mi_input = GoodMapInfo
    /\ mi_args = [enforce_format_checks |-> TRUE, warning_options |-> DefaultWarningOptions]
    /\ mi_result = NoResult

NextMapInfo ==
    \/ ValidateCall
    \/ ConvertCall
    \/ ConvertAgain

\* ------------------------------------------------------------------------
\* Archive Packager (scripts/funcs/compress_map.py)
\* ------------------------------------------------------------------------
MaxPackagings == 2

\* the files a map directory can hold: the folder below the map directory
\* ("." is the map directory itself) and the file name
MapFiles ==
    { [folder |-> ".", filename |-> "game.js"],
      [folder |-> ".", filename |-> "level.json"],
      [folder |-> "texpages", filename |-> "page-1.png"] }

FileContents == {"c1", "c2"}

\* the map directories: one content for each file of a non-empty set of files
MapTrees ==
    UNION {[files -> FileContents] : files \in (SUBSET MapFiles) \ {{}}}

\* None, or a salt string
Salts == {"None", "s1", "s2"}

Platforms == {"win32", "linux"}

\* every order of the elements of a set
RECURSIVE Orders(_)
Orders(S) ==
    IF S = {} THEN {<< >>}
    ELSE UNION {{<<x>> \o rest : rest \in Orders(S \ {x})} : x \in S}

\* the orders in which os.walk(mapFolderPath) can hand out the files of the
\* tree (lines 54-55): the files of the map directory first, then those of
\* each folder below it, each listing in the arbitrary order of the
\* directory scan
Listings(tree) ==
    LET top == {f \in DOMAIN tree : f.folder = "."}
        sub == {f \in DOMAIN tree : f.folder # "."}
    IN  {a \o b : a \in Orders(top), b \in Orders(sub)}

\* os.path.relpath(fullFilePath, mapFolderPath)
RelPath(f) == IF f.folder = "." THEN <<f.filename>> ELSE <<f.folder, f.filename>>

DATETIMEZERO == <<1980, 0, 0, 0, 0, 0>>

\* zipfile.ZipInfo(filename, date_time) on a platform: the standard values
ZipInfo(filename, date_time, platform) ==
    [ filename        |-> filename,
      date_time       |-> date_time,
      compress_type   |-> "ZIP_STORED",
      create_system   |-> IF platform = "win32" THEN 0 ELSE 3,
      create_version  |-> 20,
      extract_version |-> 20,
      flag_bits       |-> 0,
      external_attr   |-> 0 ]

\* WZMapZipInfo._override, lines 41-49 (flag_bits 0x800: UTF-8 file names)
WZMapZipInfo_override ==
    [ compress_type   |-> "ZIP_DEFLATED",
      create_system   |-> 0,
      create_version  |-> 20,
      date_time       |-> DATETIMEZERO,
      external_attr   |-> 0,
      extract_version |-> 20,
      flag_bits       |-> 2048 ]

\* WZMapZipInfo(zinfo): every attribute named in _override reads as the
\* override, every other attribute as that of zinfo (lines 23-36)
WZMapZipInfo(zinfo) ==
    [k \in DOMAIN zinfo |->
        IF k \in DOMAIN WZMapZipInfo_override THEN WZMapZipInfo_override[k] ELSE zinfo[k]]

\* zf_out.writestr(zinfo, data, compresslevel=9): the entry appended
writestr(zinfo, data) ==
    [header |-> zinfo, compresslevel |-> 9, data |-> data]

\* lines 54-61 for the files in the order of one listing
RECURSIVE WriteFiles(_, _, _, _)
WriteFiles(tree, listing, platform, i) ==
    IF i > Len(listing) THEN << >>
    ELSE <<writestr(WZMapZipInfo(ZipInfo(RelPath(listing[i]), DATETIMEZERO, platform)),
                    tree[listing[i]])>>
         \o WriteFiles(tree, listing, platform, i + 1)

\* compress_map_folder(mapFolderPath, outputZipPath, hashCollisionAvoidanceSalt),
\* lines 51-64: the entries of the archive written
WriteZip(tree, listing, hashCollisionAvoidanceSalt, platform) ==
    WriteFiles(tree, listing, platform, 1)
    \o (IF hashCollisionAvoidanceSalt # "None"
        THEN <<writestr(WZMapZipInfo(ZipInfo(<<".map-package-disambiguate">>,
                                             DATETIMEZERO, platform)),
                        hashCollisionAvoidanceSalt)>>
        ELSE << >>)

\* one call of compress_map_folder on the map directory
CompressMapFolder(salt, listing, platform) ==
    /\ Len(pk_calls) < MaxPackagings
    /\ listing \in Listings(pk_tree)
    /\ pk_calls' = Append(pk_calls,
                          [salt |-> salt, platform |-> platform,
                           archive |-> WriteZip(pk_tree, listing, salt, platform)])
    /\ UNCHANGED pk_tree
    /\ UNCHANGED notPkVars

\* compress_map_folder has not been called
PackagerIdle ==
    /\ pk_tree = [f \in {[folder |-> ".", filename |-> "game.js"]} |-> "c1"]
    /\ pk_calls = << >>

NextPackage ==
    \E salt \in Salts, platform \in Platforms, listing \in Orders(DOMAIN pk_tree) :
        CompressMapFolder(salt, listing, platform)

\* ------------------------------------------------------------------------
\* Map-list validation command (scripts/validate_new_map.py)
\* ------------------------------------------------------------------------
MaxListedMaps == 2

\* a listed map path: whether it exists and is a directory, its last
\* component, what `maptools package info` does on it (exit code, stderr
\* lines, MapInfo printed), and whether a map of that name is in the map repos
ListedAlpha ==
    [path |-> "maps/Alpha_Map", exists |-> TRUE, is_dir |-> TRUE, dir_name |-> <<"A", "l", "p", "h", "a", "_", "M", "a", "p">>,
     exit |-> 0, stderr |-> << >>, info |-> GoodMapInfo, name_taken |-> FALSE]

ListedMissing == [ListedAlpha EXCEPT !.path = "maps/Gone", !.exists = FALSE]

ListedUnprocessable == [ListedAlpha EXCEPT !.path = "maps/Broken", !.exit = 1]

ListedCampaign ==
    [ListedAlpha EXCEPT !.path = "maps/Campaign", !.info = [GoodMapInfo EXCEPT !.type = "campaign"]]

ListedTaken == [ListedAlpha EXCEPT !.path = "maps/Taken", !.name_taken = TRUE]

ListedLegacy ==
    [ListedAlpha EXCEPT !.path = "maps/Legacy", !.info = [GoodMapInfo EXCEPT !.levelFormat = "lev"]]

ListedMisfiled == [ListedAlpha EXCEPT !.path = "maps/2c-Alpha", !.dir_name = <<"2", "c", "-", "A", "l", "p", "h", "a">>]

ListedNoisy == [ListedAlpha EXCEPT !.path = "maps/Noisy", !.stderr = <<"maptools: warning">>]

ListedOld == [ListedAlpha EXCEPT !.path = "maps/Old", !.info = MapFolderOld.info]

ListedDelta ==
    [ListedAlpha EXCEPT !.path = "maps/Delta", !.info = [GoodMapInfo EXCEPT !.players = 8,
                                          !.hq = [i \in 1..8 |-> [x |-> i, y |-> i]]]]

ListedMaps ==
    { ListedAlpha, ListedMissing, ListedUnprocessable, ListedCampaign, ListedTaken,
      ListedLegacy, ListedMisfiled, ListedNoisy, ListedOld, ListedDelta }

\* no --expected-players argument
NoExpectedPlayers == 0

\* MapValidationDetails.get_status_list, lines 94-109
get_status_list(details) ==
    LET status_list ==
            When(details.players_count_mismatch, "PlayersCountMismatch")
            \o When(details.enforce_format_checks
                        /\ ~details.info_validation_result.passedFormatChecks,
                    "NeedsFormatConversion")
            \o When(details.name_conflict, "NameConflict")
            \o When(details.mapdir_folder_name_mismatch, "FolderNameDoesNotMatchMapName")
            \o When(Len(details.info_validation_result.errors) > 0, "ValidationErrors")
    IN  IF Len(status_list) = 0 THEN <<"Pass">> ELSE status_list

\* MapValidationDetails.passed_validation, lines 114-115
passed_validation(details) == get_status_list(details) = <<"Pass">>

\* validate_map, lines 119-158, with enforce_format_checks=True: the exception
\* raised ("" if none) and the MapValidationDetails returned
validate_map(map, check_for_name_conflict, expected_players_count) ==
    IF map.exit # 0 THEN [raised |-> "FailedToProcessMapError"]
    ELSE
        LET v == validate_map_info(map.info, TRUE, DefaultWarningOptions)
        IN  IF v.raised # "" THEN [raised |-> v.raised]
            ELSE
                [raised |-> "",
                 details |->
                    [info_validation_result |->
                        [v EXCEPT !.errors = IF Len(map.stderr) > 0
                                             THEN map.stderr \o v.errors ELSE v.errors],
                     name_conflict |-> check_for_name_conflict /\ map.name_taken,
                     mapdir_folder_name_mismatch |->
                        map.is_dir /\ map.dir_name # map.info.name,
                     players_count_mismatch |->
                        /\ expected_players_count # NoExpectedPlayers
                        /\ map.info.players # expected_players_count,
                     enforce_format_checks |-> TRUE]]

\* validation_details[path_obj] = details: an OrderedDict keeps the position
\* of a key it already holds
RECURSIVE SetEntry(_, _, _, _)
SetEntry(entries, i, path, details) ==
    IF i > Len(entries) THEN Append(entries, [path |-> path, details |-> details])
    ELSE IF entries[i].path = path
        THEN [entries EXCEPT ![i] = [path |-> path, details |-> details]]
        ELSE SetEntry(entries, i + 1, path, details)

\* the validated maps that did not pass
FailingMaps(validation_details) ==
    {i \in 1..Len(validation_details) : ~passed_validation(validation_details[i].details)}

\* print_multi_map_validation_details, lines 252-299: the overall status
\* printed and the value returned
print_multi_map_validation_details(validation_details, maps_failed_processing) ==
    IF /\ FailingMaps(validation_details) = {}
       /\ Len(validation_details) > 0
       /\ Len(maps_failed_processing) = 0
    THEN [overall_validation_status |-> "PASS", ret_val |-> 0]
    ELSE [overall_validation_status |-> "FAILED", ret_val |-> 1]

\* the value validate_repo_map_list returns, lines 315-316
num_failing_maps_or_1(validation_details) ==
    IF Len(validation_details) > 0
    THEN Cardinality(FailingMaps(validation_details)) ELSE 1

\* exit(ret_val): the exit status of the process
ExitStatus(ret_val) == ret_val % 256

ListNotStarted ==
    [pc |-> "loop", i |-> 1, validation_details |-> << >>,
     maps_failed_processing |-> << >>, overall |-> "", exit |-> -1]

\* one round of the loop of validate_repo_map_list, lines 306-312; an
\* exception other than FailedToProcessMapError ends the command with a
\* traceback and exit status 1
ValidateListedMap ==
    /\ vlist.pc = "loop"
    /\ vlist.i <= Len(map_path_list.paths)
    /\ LET map == map_path_list.paths[vlist.i]
           r == validate_map(map, map_path_list.check_for_name_conflict,
                             map_path_list.expected_players_count)
       IN  vlist' =
            IF ~map.exists THEN [vlist EXCEPT !.i = @ + 1]
            ELSE IF r.raised = "FailedToProcessMapError"
                THEN [vlist EXCEPT !.i = @ + 1,
                                   !.maps_failed_processing = Append(@, map.path)]
            ELSE IF r.raised # ""
                THEN [vlist EXCEPT !.pc = "exited", !.exit = 1]
            ELSE [vlist EXCEPT !.i = @ + 1,
                               !.validation_details = SetEntry(@, 1, map.path, r.details)]
    /\ UNCHANGED map_path_list
    /\ UNCHANGED notVlVars

\* lines 314-316 and main, lines 370-373: print the report and exit
PrintAndExit ==
    /\ vlist.pc = "loop"
    /\ vlist.i > Len(map_path_list.paths)
    /\ vlist' = [vlist EXCEPT
            !.pc = "exited",
            !.overall = print_multi_map_validation_details(
                            vlist.validation_details,
                            vlist.maps_failed_processing).overall_validation_status,
            !.exit = ExitStatus(num_failing_maps_or_1(vlist.validation_details))]
    /\ UNCHANGED map_path_list
    /\ UNCHANGED notVlVars

\* the command has been started on a list of maps
MapListGiven(lists) ==
    /\ map_path_list \in [paths : lists,
                          check_for_name_conflict : BOOLEAN,
                          expected_players_count : {NoExpectedPlayers, 2}]
    /\ vlist = ListNotStarted

MapListIdle == MapListGiven({<<ListedAlpha>>}) /\ ~map_path_list.check_for_name_conflict
                 /\ map_path_list.expected_players_count = NoExpectedPlayers

NextMapList ==
    \/ ValidateListedMap
    \/ PrintAndExit

\* generate_releases_for_maprepo has not been called
BuilderIdle ==
    /\ pc = "start"
    /\ commits = << >>
    /\ cursor = 0
    /\ last_release_version = << >>
    /\ MAP_REPO_NEW_RELEASE_TAGNAME = << >>
    /\ releasesGeneratedThisRun = << >>
    /\ releaseList = << >>
    /\ outputFolder = << >>
    /\ changedFolders = << >>
    /\ commitRelease = << >>

NextRelease ==
    \/ \E n \in 0..MaxCommits : \E last \in LastReleaseTags : StartRun(n, last)
    \/ \E s \in DirstatChoices(MaxChangedFolders) : \E docs \in BOOLEAN :
            ProcessCommit((IF docs THEN <<DocsFolder>> ELSE << >>) \o DirstatOf(s))
    \/ ReturnReleases

InitRelease == BuilderIdle /\ IndexEmpty /\ UploaderIdle /\ IngestIdle /\ MapInfoIdle /\ PackagerIdle /\ MapListIdle

SpecRelease == InitRelease /\ [][NextRelease]_vars

InitIndex == IndexEmpty /\ BuilderIdle /\ UploaderIdle /\ IngestIdle /\ MapInfoIdle /\ PackagerIdle /\ MapListIdle

SpecIndex == InitIndex /\ [][NextIndex]_vars

InitUpload == UploaderIdle /\ IndexEmpty /\ BuilderIdle /\ IngestIdle /\ MapInfoIdle /\ PackagerIdle /\ MapListIdle

SpecUpload == InitUpload /\ [][NextUpload]_vars

SpecUploadAlone == InitUpload /\ [][NextUploadAlone]_vars

InitIngest == IngestIdle /\ IndexEmpty /\ BuilderIdle /\ UploaderIdle /\ MapInfoIdle /\ PackagerIdle /\ MapListIdle

SpecIngest == InitIngest /\ [][NextIngest]_vars

InitMapInfo ==
    /\ MapInfoAtHand(SampleMapInfos \cup AuthorSamples)
    /\ IndexEmpty /\ BuilderIdle /\ UploaderIdle /\ IngestIdle /\ PackagerIdle /\ MapListIdle

SpecMapInfo == InitMapInfo /\ [][NextMapInfo]_vars

InitPackage ==
    /\ pk_tree \in MapTrees
    /\ pk_calls = << >>
    /\ IndexEmpty /\ BuilderIdle /\ UploaderIdle /\ IngestIdle /\ MapInfoIdle /\ MapListIdle

SpecPackage == InitPackage /\ [][NextPackage]_vars

InitMapList ==
    /\ MapListGiven(UNION {[1..n -> ListedMaps] : n \in 0..MaxListedMaps})
    /\ IndexEmpty /\ BuilderIdle /\ UploaderIdle /\ IngestIdle /\ MapInfoIdle /\ PackagerIdle

SpecMapList == InitMapList /\ [][NextMapList]_vars

\* ------------------------------------------------------------------------
\* Claims about the Database Indexer (checked under SpecIndex)
\* ------------------------------------------------------------------------
CeilDiv(n, c) == (n + c - 1) \div c

\* C2: after any sequence of add_to_mapdatabase_index calls every index page
\* holds at most max_maps_per_index_file records.
C2_PagesWithinCapacity ==
    \A p \in 1..Len(pages) : Len(pages[p].maps) <= MaxMapsPerIndexFile

\* C3: from an empty index one add_to_mapdatabase_index call with N >= 1
\* records and capacity C leaves exactly ceil(N/C) pages, every page but the
\* last holding exactly C records and the last holding the rest.
C3_PaginationFromEmpty ==
    [][ (pages = << >> /\ lastOp' = "add" /\ lastNew' # << >>) =>
            LET N == Len(lastNew')
                C == MaxMapsPerIndexFile
                k == CeilDiv(N, C)
            IN  /\ Len(pages') = k
                /\ \A p \in 1..(k - 1) : Len(pages'[p].maps) = C
                /\ Len(pages'[k].maps) = N - C * (k - 1)
      ]_vars

\* C3 witness: a call on the empty index has just laid 5 records over 3 pages.
C3_Witness ==
    /\ lastOp = "add"
    /\ Len(lastNew) = 5
    /\ ConcatMaps(pages) = lastNew
    /\ Len(pages) = 3

\* C4: the page links form a chain: page 1 has no prev, every page p > 1 has
\* prev = page p-1, every page below the highest has next = page p+1, and the
\* highest page has no next.
C4_LinkChain ==
    \A p \in 1..Len(pages) :
        LET links == pages[p].links
        IN  /\ (p = 1) => "prev" \notin DOMAIN links
            /\ (p > 1) => ("prev" \in DOMAIN links /\ links.prev = PageUrl(p - 1))
            /\ (p < Len(pages)) => ("next" \in DOMAIN links /\ links.next = PageUrl(p + 1))
            /\ (p = Len(pages)) => "next" \notin DOMAIN links

\* C4 witness: an index of three pages, the middle one linked both ways.
C4_Witness ==
    /\ Len(pages) = 3
    /\ lastOp = "add"
    /\ DOMAIN pages[2].links = {"self", "prev", "next"}

\* C5: add_to_mapdatabase_index keeps what the index holds: the records of all
\* pages in page order after the call are those before it followed by
\* new_maps, and every page below the previously highest page is unchanged.
C5_AppendOnly ==
    [][ (lastOp' = "add") =>
            /\ ConcatMaps(pages') = ConcatMaps(pages) \o lastNew'
            /\ \A p \in 1..(Len(pages) - 1) : pages'[p] = pages[p]
      ]_vars

\* C5 witness: a call has appended records to an index that already had two
\* pages of records.
C5_Witness ==
    /\ lastOp = "add"
    /\ lastNew # << >>
    /\ Len(pages) >= 2
    /\ Len(ConcatMaps(pages)) - Len(lastNew) > MaxMapsPerIndexFile

\* C6: rebuild_mapdatabase_index keeps the number of pages, every page's links
\* and every page's record count; each position gets the asset-store record
\* of its content hash, or keeps its record when the store has none.
C6_RebuildInPlace ==
    [][ (lastOp' = "rebuild") =>
            /\ Len(pages') = Len(pages)
            /\ \A p \in 1..Len(pages) :
                /\ pages'[p].links = pages[p].links
                /\ Len(pages'[p].maps) = Len(pages[p].maps)
                /\ \A i \in 1..Len(pages[p].maps) :
                    LET old == pages[p].maps[i]
                    IN  pages'[p].maps[i] =
                            IF assetStore[old.hash] = NoFile THEN old ELSE assetStore[old.hash]
      ]_vars

\* C6 witness: a rebuild over two pages has replaced one record by a newer
\* revision and kept another whose hash the asset store does not hold.
C6_Witness ==
    /\ lastOp = "rebuild"
    /\ Len(pages) >= 2
    /\ \E p \in 1..Len(pages) : \E i \in 1..Len(pages[p].maps) :
            pages[p].maps[i].rev = 2
    /\ \E p \in 1..Len(pages) : \E i \in 1..Len(pages[p].maps) :
            assetStore[pages[p].maps[i].hash] = NoFile

\* C7: after every completed add or rebuild call versions.json has one entry
\* per existing page, in page order, giving the page's self link and the
\* version stored in the page.
C7_VersionsManifest ==
    (lastOp \in {"add", "rebuild"}) =>
        /\ Len(versionsFile) = Len(pages)
        /\ \A p \in 1..Len(pages) :
            /\ versionsFile[p].page = pages[p].links.self
            /\ versionsFile[p].version = pages[p].version

\* C7 witness: after a rebuild, a manifest of two pages stamped later than
\* the pages were created.
C7_Witness ==
    /\ lastOp = "rebuild"
    /\ Len(pages) >= 2
    /\ \A p \in 1..Len(pages) : pages[p].version = 1

\* ------------------------------------------------------------------------
\* Claims about the Release Builder (checked under SpecRelease)
\* ------------------------------------------------------------------------
\* the step just taken ran the loop body on a commit that changed map directories
ProcessedMapCommit ==
    /\ pc = "loop"
    /\ cursor' = cursor + 1
    /\ changedFolders' # << >>

\* the changed map directories of the commit whose maps are compliant and inspectable
PublishableIn(folders) ==
    {i \in 1..Len(folders) : MapOutcome(folders[i]) = "packaged"}

\* the asset counter the commit's release had before the commit's maps were processed
AssetsBefore ==
    IF MAP_REPO_NEW_RELEASE_TAGNAME' = MAP_REPO_NEW_RELEASE_TAGNAME
        THEN releasesGeneratedThisRun[MAP_REPO_NEW_RELEASE_TAGNAME].assets
        ELSE 0

\* 'v' + str(n)
TagOf(n) == <<"v">> \o IntToDigits(n)

LastMajor == DigitsToInt(RELEASE_VERSION_RE(last_release_version).major)

\* the members of a set of commits, oldest first
RECURSIVE Ascending(_)
Ascending(S) ==
    IF S = {} THEN << >>
    ELSE LET m == CHOOSE x \in S : \A y \in S : y <= x
         IN  Append(Ascending(S \ {m}), m)

\* C1: the asset cap is checked only before a commit is processed: a commit
\* goes to a new release (the next tag) exactly when the current release has
\* at least 1 asset and its asset count plus the commit's changed map
\* directories exceeds the cap; all assets of the commit land in that one
\* release, whatever its count becomes.
C1_CapCheckedBeforeCommit ==
    [][ ProcessedMapCommit =>
            LET cur == MAP_REPO_NEW_RELEASE_TAGNAME
                new == MAP_REPO_NEW_RELEASE_TAGNAME'
                had == releasesGeneratedThisRun[cur].assets
            IN  /\ (new # cur) <=>
                        (had >= 1 /\ had + Len(changedFolders') > MaxAssetsPerRelease)
                /\ (new # cur) => new = TagOf(DigitsToInt(RELEASE_VERSION_RE(cur).major) + 1)
                /\ commitRelease'[commits[cursor']] = new
                /\ \A t \in DOMAIN releasesGeneratedThisRun :
                        t # new => /\ releasesGeneratedThisRun'[t] = releasesGeneratedThisRun[t]
                                   /\ ReleaseDir(outputFolder', t) = ReleaseDir(outputFolder, t)
                /\ releasesGeneratedThisRun'[new].assets >= AssetsBefore
                /\ (pc' = "loop") =>
                        releasesGeneratedThisRun'[new].assets =
                            AssetsBefore + Cardinality(PublishableIn(changedFolders'))
      ]_vars

\* C1 witness: the first release holds more assets than the cap, all from one
\* commit, and the following commit has opened the next tag.
C1_Witness ==
    /\ pc = "done"
    /\ Len(releaseList) = 2
    /\ releasesGeneratedThisRun[releaseList[1]].assets > MaxAssetsPerRelease
    /\ Len(releasesGeneratedThisRun[releaseList[1]].commits) = 1

\* C8: the i-th release started in a run is tagged 'v' + (major of the last
\* published tag + i); the returned list is in ascending tag order without
\* duplicates or gaps and holds exactly the releases with at least one asset.
C8_TagsIncrement ==
    (pc \in {"loop", "done", "raised"} /\ RELEASE_VERSION_RE(last_release_version).matched) =>
        LET k == Cardinality(DOMAIN releasesGeneratedThisRun)
        IN  /\ DOMAIN releasesGeneratedThisRun = {TagOf(LastMajor + i) : i \in 1..k}
            /\ MAP_REPO_NEW_RELEASE_TAGNAME = TagOf(LastMajor + k)
            /\ (pc = "done") =>
                /\ \A i \in 1..Len(releaseList) : releaseList[i] = TagOf(LastMajor + i)
                /\ {releaseList[i] : i \in 1..Len(releaseList)} =
                        {t \in DOMAIN releasesGeneratedThisRun :
                            releasesGeneratedThisRun[t].assets >= 1}

\* C8 witness: a run has started and returned two releases, the second
\* tagged with a two-digit major version.
C8_Witness ==
    /\ pc = "done"
    /\ Len(releaseList) = 2
    /\ Cardinality(DOMAIN releasesGeneratedThisRun) = 2
    /\ releaseList[2] = <<"v", "1", "0">>

\* C9: for every returned release, release.json lists in included_commits,
\* oldest first, exactly the map-touching commits processed while the release
\* was current, target_commitish is the last of them, and every map-touching
\* commit is in the included_commits of exactly one release.
C9_ReleaseManifest ==
    (pc = "done") =>
        /\ \A i \in 1..Len(releaseList) :
            LET t == releaseList[i]
                json == outputFolder[t].release_json
                processed == Ascending({c \in DOMAIN commitRelease : commitRelease[c] = t})
            IN  /\ processed # << >>
                /\ json.included_commits = processed
                /\ json.target_commitish = processed[Len(processed)]
        /\ \A c \in DOMAIN commitRelease :
            Cardinality({t \in DOMAIN outputFolder :
                InList(c, outputFolder[t].release_json.included_commits)}) = 1

\* C9 witness: a returned release that took two commits.
C9_Witness ==
    /\ pc = "done"
    /\ \E i \in 1..Len(releaseList) :
            Len(outputFolder[releaseList[i]].release_json.included_commits) = 2

\* C10: a map whose MapInfo is malformed or breaks a publication rule, or
\* whose inspection-tool call fails, is skipped: no archive is produced for
\* it, it is not counted, and the other maps of the commit and the later
\* commits are still processed.
C10_BadMapsSkipped ==
    [][ ProcessedMapCommit =>
            LET new == MAP_REPO_NEW_RELEASE_TAGNAME'
            IN  /\ pc' = "loop"
                /\ releasesGeneratedThisRun'[new].assets =
                        AssetsBefore + Cardinality(PublishableIn(changedFolders'))
                /\ \A i \in 1..Len(changedFolders') :
                        (i \notin PublishableIn(changedFolders')) =>
                            ~\E a \in ReleaseDir(outputFolder', new).files :
                                    a.source = changedFolders'[i].rest
      ]_vars

\* every archive the run left in the output folder, with its release tag
ProducedArchives ==
    UNION {{<<t, a>> : a \in outputFolder[t].files} : t \in DOMAIN outputFolder}

\* C11: at the end of a run all archives produced in the run have pairwise
\* distinct content hashes (a colliding archive is repackaged with a salt).
C11_DistinctHashes ==
    (pc = "done") =>
        \A p, q \in ProducedArchives :
            (p # q) => archive_hash(p[2]) # archive_hash(q[2])

\* C29: a release holds more assets than the cap only if all of them come
\* from one commit: a commit that adds assets to a release which already holds
\* assets of an earlier commit leaves it with at most MaxAssetsPerRelease
\* assets, and no other step adds assets to a release.
C29_OverCapOnlyFromOneCommit ==
    [][ /\ ProcessedMapCommit =>
            LET after == releasesGeneratedThisRun'[MAP_REPO_NEW_RELEASE_TAGNAME'].assets
            IN  (AssetsBefore >= 1 /\ after > AssetsBefore) => after <= MaxAssetsPerRelease
        /\ \A t \in DOMAIN releasesGeneratedThisRun' :
            LET before == IF t \in DOMAIN releasesGeneratedThisRun
                          THEN releasesGeneratedThisRun[t].assets ELSE 0
            IN  (releasesGeneratedThisRun'[t].assets > before) =>
                    (ProcessedMapCommit /\ t = MAP_REPO_NEW_RELEASE_TAGNAME')
      ]_vars

\* C29 witness: the run is over and its one release holds exactly
\* MaxAssetsPerRelease assets, drawn from two commits.
C29_Witness ==
    /\ pc = "done"
    /\ Len(releaseList) = 1
    /\ releasesGeneratedThisRun[releaseList[1]].assets = MaxAssetsPerRelease
    /\ Len(releasesGeneratedThisRun[releaseList[1]].commits) = 2

\* ------------------------------------------------------------------------
\* Claims about the Release Uploader (checked under SpecUpload)
\* ------------------------------------------------------------------------
\* the release the loop of run r is at
CurrentRelease(r) == uploads[r].releases[uploads[r].i]

\* run r has issued no create call for its releases from position i on
NoCreateFrom(r, i) ==
    \A j \in i..Len(uploads[r].releases) :
        ~\E c \in calls : c.run = r /\ c.op = "create" /\ c.tag = uploads[r].releases[j]

\* once upload_generated_releases has raised, the run does nothing more
RaisedIsFinal ==
    \A r \in Runs : (uploads[r].pc = "raised") => uploads'[r] = uploads[r]

CreateFailed(r) ==
    /\ uploads[r].pc = "create"
    /\ \E c \in calls' \ calls : c.run = r /\ c.op = "create"
    /\ published' = published

\* C13: when the create call of a release fails, the run attempts to delete
\* the release of that tag and then raises; it creates no later release and
\* returns no upload dates.
C13_DeleteThenRaise ==
    /\ [][ \A r \in Runs : CreateFailed(r) => uploads'[r].pc = "delete" ]_vars
    /\ [][ \A r \in Runs :
            (uploads[r].pc = "delete" /\ uploads'[r] # uploads[r])
            => /\ \E c \in calls' : c.run = r /\ c.op = "delete" /\ c.tag = CurrentRelease(r)
               /\ uploads'[r].pc = "raised"
               /\ uploads'[r].raised = "ValueError: gh release create failed" ]_vars
    /\ [] ( \A r \in Runs :
            (uploads[r].raised = "ValueError: gh release create failed")
            => /\ uploads[r].pc = "raised"
               /\ NoCreateFrom(r, uploads[r].i + 1) )
    /\ [][ \A r \in Runs :
            (uploads[r].raised = "ValueError: gh release create failed")
            => uploads'[r] = uploads[r] ]_vars

\* C13 witness: the create call of a run's second release failed after the
\* first release was uploaded and dated; the delete call was made.
C13_Witness ==
    \E r \in Runs :
        /\ uploads[r].raised = "ValueError: gh release create failed"
        /\ uploads[r].i = 2
        /\ Len(uploads[r].release_upload_dates) = 1
        /\ \E c \in calls : c.run = r /\ c.op = "delete" /\ c.tag = uploads[r].releases[2]

\* C14: for any interleaving of the two runs, each tag is published by at
\* most one run, and a release one run has published is never deleted or
\* replaced afterwards.
C14_NoDoublePublication ==
    /\ [] ( \A p, q \in published : (p[2] = q[2]) => p[1] = q[1] )
    /\ [][ \A t \in DOMAIN remote :
            (remote[t].complete /\ <<remote[t].by, t>> \in published)
            => (t \in DOMAIN remote' /\ remote'[t] = remote[t]) ]_vars

\* C15: in dry-run mode no create, delete, access-token or push call is
\* executed, the host is not changed, and every suppressed call counts as a
\* success for its caller.
C15_DryRunSuppresses ==
    /\ \A c \in calls : ~c.dry_run
    /\ \A t \in DOMAIN remote : ~uploads[remote[t].by].dry_run
    /\ \A r \in Runs :
        uploads[r].dry_run =>
            /\ uploads[r].pc # "delete"
            /\ uploads[r].raised \notin {"ValueError: gh release create failed", "NameError"}
            /\ \A t \in DOMAIN remote : <<r, t>> \notin published
    /\ push.dry_run => push.result = "True"

\* C15 witness: a dry run with a token provider went through both of its
\* releases and returned, and a dry-run push returned True.
C15_Witness ==
    /\ \E r \in Runs :
        /\ uploads[r].dry_run
        /\ uploads[r].provider
        /\ uploads[r].pc = "returned"
        /\ Len(uploads[r].release_upload_dates) = 2
    /\ push.dry_run
    /\ push.result = "True"

\* run r took 'no releases yet': it starts from the initial commit with 'v0'
AssumedNoReleases(r) == uploads[r].last_release_version = <<"v", "0">>

\* C16: process_map_repo assumes 'no releases yet' (last release 'v0') only
\* when the latest-release lookup failed and the confirming list call
\* succeeded with an empty list; when the confirming call fails or returns a
\* non-list or a non-empty list it raises before any release is generated or
\* uploaded.
C16_NoReleasesOnlyWhenConfirmed ==
    \A r \in Runs :
        LET u == uploads[r]
            confirmed == u.lookup.list_rc = 0 /\ u.lookup.is_list /\ u.lookup.len = 0
        IN  /\ AssumedNoReleases(r) => (u.lookup.view_rc # 0 /\ confirmed)
            /\ (u.pc # "idle" /\ u.lookup.view_rc # 0 /\ confirmed) => AssumedNoReleases(r)
            /\ (u.pc # "idle" /\ u.lookup.view_rc # 0 /\ ~confirmed) =>
                    /\ u.pc = "raised"
                    /\ u.raised = "RuntimeError"
                    /\ u.releases = << >>
                    /\ ~\E c \in calls : c.run = r

\* C16 witness: one run started from 'v0' on the confirmed empty host and
\* published; the other run's lookup failed while the list call showed that
\* release, and it raised.
C16_Witness ==
    \E r, o \in Runs :
        /\ uploads[r].last_release_version = <<"v", "0">>
        /\ <<r, <<"v", "1">>>> \in published
        /\ uploads[o].pc = "raised"
        /\ uploads[o].raised = "RuntimeError"
        /\ uploads[o].lookup.is_list
        /\ uploads[o].lookup.len = 1

\* C28: a failed fetch of the publish timestamp of a release does not abort
\* the upload: the step that dates a release never raises, it appends one date
\* for that release, taken from the host or else from the local clock (always
\* from the clock when the host does not hold the release), and goes on to
\* the next release of the list; a run that returns holds exactly one upload
\* date per release, in release order.
C28_DateFetchNotFatal ==
    /\ [] ( \A r \in Runs :
              /\ uploads[r].pc = "returned" =>
                    Len(uploads[r].release_upload_dates) = Len(uploads[r].releases)
              /\ \A k \in 1..Len(uploads[r].release_upload_dates) :
                    uploads[r].release_upload_dates[k].release = uploads[r].releases[k] )
    /\ [][ \A r \in Runs :
            (uploads[r].pc = "date" /\ uploads'[r] # uploads[r]) =>
                LET u == uploads[r]
                    v == uploads'[r]
                IN  /\ v.raised = ""
                    /\ Len(v.release_upload_dates) = Len(u.release_upload_dates) + 1
                    /\ SubSeq(v.release_upload_dates, 1, Len(u.release_upload_dates))
                           = u.release_upload_dates
                    /\ Len(v.release_upload_dates) = u.i
                    /\ v.release_upload_dates[u.i].from \in {"publishedAt", "gmtime"}
                    /\ v.release_upload_dates[u.i].from = "publishedAt"
                           => u.releases[u.i] \in DOMAIN remote
                    /\ IF u.i < Len(u.releases)
                           THEN v.pc = "check" /\ v.i = u.i + 1
                           ELSE v.pc = "returned" ]_vars

\* C28 witness: a run that is not a dry run returned after two releases; the
\* host holds the first release in full, yet its date was taken from the local
\* clock, and the second release was uploaded and dated by the host.
C28_Witness ==
    \E r \in Runs :
        /\ uploads[r].pc = "returned"
        /\ ~uploads[r].dry_run
        /\ Len(uploads[r].releases) = 2
        /\ uploads[r].releases[1] \in DOMAIN remote
        /\ remote[uploads[r].releases[1]].complete
        /\ uploads[r].release_upload_dates[1].from = "gmtime"
        /\ uploads[r].releases[2] \in DOMAIN remote
        /\ uploads[r].release_upload_dates[2].from = "publishedAt"

\* ------------------------------------------------------------------------
\* Claims about the database ingestion (checked under SpecIngest)
\* ------------------------------------------------------------------------
\* every new release of repository r in this run is in maps_added, has its
\* asset store file and has its record in the index
PublishedAndIndexed(r) ==
    \A k \in 1..Len(ingest.map_repo_new_releases[r]) :
        LET tag == ingest.map_repo_new_releases[r][k]
            rec == ReleaseRecord(r, tag)
        IN  /\ InList(<<r, tag>>, ingest.maps_added)
            /\ assetStore[rec.hash] = rec
            /\ InList(rec, ConcatMaps(pages))

\* C17: a repository's last_release is advanced only after its new releases
\* were published to the asset store and appended to the index, and then to
\* the newest new release; it stays when there are no new releases or the
\* listing failed, and a failed listing of one repository does not keep the
\* others from being ingested.
C17_PointerAfterPublication ==
    /\ [][ \A r \in Repos :
            ( /\ ingest.pc \in {"listing", "publish", "published"}
              /\ ingest'.map_repos[r] # ingest.map_repos[r] )
            => /\ ingest.pc = "published"
               /\ ingest.map_repo_new_releases[r] # << >>
               /\ ingest'.map_repos[r] =
                    ingest.map_repo_new_releases[r][Len(ingest.map_repo_new_releases[r])]
               /\ PublishedAndIndexed(r) ]_vars
    /\ [][ \A r \in Repos :
            (map_repos_json'[r] # map_repos_json[r])
            => /\ ingest.pc = "returned"
               /\ ingest.map_repo_new_releases[r] # << >>
               /\ map_repos_json'[r] =
                    ingest.map_repo_new_releases[r][Len(ingest.map_repo_new_releases[r])]
               /\ PublishedAndIndexed(r) ]_vars
    /\ [][ (ingest.pc = "returned" /\ ingest'.pc # "returned") =>
            \A r \in Repos :
                /\ (ingest.map_repo_new_releases[r] = << >>) =>
                        map_repos_json'[r] = map_repos_json[r]
                /\ (ingest.listing[r] = "http error") =>
                        map_repos_json'[r] = map_repos_json[r]
                /\ (ingest.listing[r] = "non-list" /\ ~ingest.dry_run) =>
                        map_repos_json'[r] = map_repos_json[r]
                /\ (ingest.listing[r] = "ok" /\ hosted[r] > map_repos_json[r]) =>
                        /\ map_repos_json'[r] >= hosted[r]
                        /\ ~ingest.dry_run => map_repos_json'[r] = hosted[r] ]_vars

\* C17 witness: update_map_db has returned; the listing of the first
\* repository failed, so its pointer stayed at 'v0' although it has releases,
\* and the second repository went from 'v1' to 'v2'.
C17_Witness ==
    /\ ingest.pc = "returned"
    /\ ingest.listing = <<"http error", "ok">>
    /\ hosted[1] >= 1
    /\ ingest.map_repos[1] = 0
    /\ map_repos_json[2] = 1
    /\ ingest.map_repos[2] = 2


\* a run of update_map_db that is not a dry run is under way, an earlier one
\* has finished, and the host has the releases it had when that one finished
SecondRun ==
    /\ ingest.pc \in {"listing", "publish", "published", "returned"}
    /\ ~ingest.dry_run
    /\ last_run.finished
    /\ hosted = last_run.hosted

\* the releases a run takes from repository r are after the repository's
\* last_release tag and oldest first; a run that is not a dry run takes
\* published releases only, and all of them when the listing was obtained
IngestsSinceLastRelease(r) ==
    LET new_release_tags == ingest.map_repo_new_releases[r]
    IN  /\ \A k \in 1..Len(new_release_tags) : new_release_tags[k] > map_repos_json[r]
        /\ \A k \in 1..(Len(new_release_tags) - 1) :
                new_release_tags[k] < new_release_tags[k + 1]
        /\ ~ingest.dry_run =>
                \A k \in 1..Len(new_release_tags) : new_release_tags[k] <= hosted[r]
        /\ (~ingest.dry_run /\ ingest.listing[r] = "ok") =>
                \A tag \in (map_repos_json[r] + 1)..hosted[r] : InList(tag, new_release_tags)

\* maps_added keeps, for every repository, the order of its new releases
MapsAddedOldestFirst ==
    \A j, k \in 1..Len(ingest.maps_added) :
        (j < k /\ ingest.maps_added[j][1] = ingest.maps_added[k][1])
            => ingest.maps_added[j][2] < ingest.maps_added[k][2]

OnlySinceLastRelease ==
    /\ \A r \in 1..Len(ingest.map_repo_new_releases) : IngestsSinceLastRelease(r)
    /\ MapsAddedOldestFirst

NameRuleMet(info) ==
    /\ Has(info, "name")
    /\ Len(info.name) \in 1..60
    /\ \A i \in 1..Len(info.name) : info.name[i] \in NameChars

LicenseRuleMet(info) ==
    /\ Has(info, "license")
    /\ LicenseParses(info.license)
    /\ LicenseExpected(info.license)

AuthorRuleMet(info) ==
    /\ Has(info, "author")
    /\ Len(info.author.name) <= 60

\* year of at least four digits, month 01-12, day 01-31, optional time; not
\* more than one day in the future and not before 1999
CreatedRuleMet(info) ==
    Has(info, "created") =>
        LET m == DATE_FORMAT_RE(info.created)
        IN  /\ m.matched
            /\ DigitsToInt(m.year) >= 1999
            /\ (DigitsToInt(m.year) * 12 + DigitsToInt(m.month)) * 31 + DigitsToInt(m.day)
                   <= (NowDate.year * 12 + NowDate.month) * 31 + NowDate.day + 1

ModRuleMet(info) ==
    info.mapMod =>
        ~(/\ Has(info, "modTypes")
          /\ \E i \in 1..Len(info.modTypes) : info.modTypes[i] = "gamemodels"
          /\ \E i \in 1..Len(info.modTypes) : info.modTypes[i] = "datasets")

FormatRuleMet(info) ==
    /\ info.levelFormat = "json"
    /\ info.mapFormat \in {"script", "jsonv2"}
    /\ info.flatMapPackage

Compliant(info) ==
    /\ NameRuleMet(info)
    /\ info.type = "skirmish"
    /\ info.players \in 2..10
    /\ info.tileset \in {"arizona", "urban", "rockies"}
    /\ LicenseRuleMet(info)
    /\ AuthorRuleMet(info)
    /\ CreatedRuleMet(info)
    /\ info.mapsize.w \in 1..256 /\ info.mapsize.h \in 1..256
    /\ ModRuleMet(info)
    /\ FormatRuleMet(info)

ReturnedNoErrors == mi_result.raised = "" /\ mi_result.errors = << >>

\* C18: for every MapInfo that meets all publication rules, validate_map_info
\* returns an empty errors list, whatever enforce_format_checks and the warning
\* options are; and the release builder packages a map exactly when the
\* validation of its MapInfo returned an empty errors list.
C18_CompliantHasNoErrors ==
    mi_call = "validate" =>
        /\ Compliant(mi_input) => ReturnedNoErrors
        /\ (mi_args.enforce_format_checks /\ mi_args.warning_options = DefaultWarningOptions) =>
               (InspectAndValidate([top |-> "maps", rest |-> "2c-Alpha", exit |-> 0,
                                    info |-> mi_input]) = "packaged"
                    <=> ReturnedNoErrors)


\* C19: for any MapInfo whose name is absent or empty, or whose type is not
\* "skirmish", or whose players value is outside 2..10, validate_map_info
\* returns a result whose errors list is not empty.
C19_MissingBasicsGiveErrors ==
    (/\ mi_call = "validate"
     /\ \/ ~Has(mi_input, "name")
        \/ mi_input.name = << >>
        \/ mi_input.type # "skirmish"
        \/ mi_input.players \notin 2..10)
        => (mi_result.raised = "" /\ mi_result.errors # << >>)


\* the created date matches the pattern but lies before 1999 or more than one
\* day after the date of the run
CreatedOutOfRange(info) ==
    /\ Has(info, "created")
    /\ DATE_FORMAT_RE(info.created).matched
    /\ ~CreatedRuleMet(info)

\* what validate_map_info returns for the document without its created date
WithoutCreated ==
    validate_map_info(RemoveKey(mi_input, "created"), mi_args.enforce_format_checks,
                      mi_args.warning_options)

\* every element of the list `part` is an element of the list `whole`
AllIn(part, whole) ==
    \A i \in 1..Len(part) : \E j \in 1..Len(whole) : whole[j] = part[i]

\* C24: a created date that matches the pattern but lies before 1999 or more
\* than one day in the future gives a result whose errors hold a created-date
\* finding next to the findings of all other rules; a created date that does
\* not match the pattern gives an 'invalid format' error; a missing created
\* date gives only a warning, and none when that warning is switched off.
C24_CreatedDateFindings ==
    (mi_call = "validate" /\ WithoutCreated.raised = "") =>
        /\ CreatedOutOfRange(mi_input) =>
            /\ mi_result.raised = ""
            /\ AllIn(WithoutCreated.errors, mi_result.errors)
            /\ Len(mi_result.errors) > Len(WithoutCreated.errors)
        /\ (Has(mi_input, "created") /\ ~DATE_FORMAT_RE(mi_input.created).matched) =>
            /\ mi_result.raised = ""
            /\ AllIn(<<"invalid created date format">>, mi_result.errors)
            /\ AllIn(WithoutCreated.errors, mi_result.errors)
        /\ ~Has(mi_input, "created") =>
            /\ mi_result.raised = ""
            /\ ~AllIn(<<"invalid created date format">>, mi_result.errors)
            /\ AllIn(<<"missing created date">>, mi_result.warnings)
                   <=> mi_args.warning_options.missing_created_date_warning


\* the findings of the author rule
AuthorFindings ==
    { "missing author, has additionalAuthors", "missing author", "missing author name",
      "author name too long", "empty author name" }

\* no finding of the author rule is in the list
NoAuthorFinding(list) == \A i \in 1..Len(list) : list[i] \notin AuthorFindings

\* C25: when validate_map_info returns and the author key is missing: with
\* additionalAuthors present it is an error whatever the license; otherwise it
\* is a non-fatal error and no error when the license is valid and approved,
\* and an error when the license is missing, unparsable or not approved. An
\* author name of more than 60 characters is an error; an empty author name
\* is only a warning.
C25_MissingAuthorDegrades ==
    (mi_call = "validate" /\ mi_result.raised = "") =>
        /\ (~Has(mi_input, "author") /\ Has(mi_input, "additionalAuthors")) =>
            /\ AllIn(<<"missing author, has additionalAuthors">>, mi_result.errors)
            /\ NoAuthorFinding(mi_result.errors_non_fatal)
        /\ (~Has(mi_input, "author") /\ ~Has(mi_input, "additionalAuthors")
                /\ LicenseRuleMet(mi_input)) =>
            /\ AllIn(<<"missing author">>, mi_result.errors_non_fatal)
            /\ NoAuthorFinding(mi_result.errors)
        /\ (~Has(mi_input, "author") /\ ~Has(mi_input, "additionalAuthors")
                /\ ~LicenseRuleMet(mi_input)) =>
            /\ AllIn(<<"missing author">>, mi_result.errors)
            /\ NoAuthorFinding(mi_result.errors_non_fatal)
        /\ (Has(mi_input, "author") /\ Len(mi_input.author.name) > 60) =>
            AllIn(<<"author name too long">>, mi_result.errors)
        /\ (Has(mi_input, "author") /\ mi_input.author.name = << >>) =>
            /\ AllIn(<<"empty author name">>, mi_result.warnings)
            /\ NoAuthorFinding(mi_result.errors)
            /\ NoAuthorFinding(mi_result.errors_non_fatal)

\* a document without author and additionalAuthors and with an approved
\* license was validated: the missing author is a non-fatal error
C25_Witness ==
    /\ mi_call = "validate" /\ mi_result.raised = ""
    /\ ~Has(mi_input, "author") /\ ~Has(mi_input, "additionalAuthors")
    /\ LicenseRuleMet(mi_input)
    /\ mi_result.errors = << >>
    /\ mi_result.errors_non_fatal = <<"missing author">>

\* the format checks the document fails
FailedFormatChecks(info) ==
    (IF info.levelFormat # "json" THEN {"level format not modern"} ELSE {})
    \cup (IF info.mapFormat \notin {"script", "jsonv2"} THEN {"map format not modern"} ELSE {})
    \cup (IF info.flatMapPackage # TRUE THEN {"not a flatMapPackage"} ELSE {})

FormatFindings ==
    {"level format not modern", "map format not modern", "not a flatMapPackage"}

\* the number of format findings in a list of findings
FormatCount(list) == Cardinality({i \in 1..Len(list) : list[i] \in FormatFindings})

\* the format findings in a list of findings
FormatIn(list) == {list[i] : i \in 1..Len(list)} \cap FormatFindings

\* C26: in every result validate_map_info returns, passedFormatChecks is false
\* exactly when at least one of the three format checks fails, whatever
\* enforce_format_checks is; with enforcement on each failing check adds one
\* entry to errors (so a failed flag comes with a finding) and none to
\* warnings; with enforcement off failing checks add nothing to errors and add
\* their warnings exactly when format warnings are enabled.
C26_FormatFlagAndRouting ==
    (mi_call = "validate" /\ mi_result.raised = "") =>
        /\ ~mi_result.passedFormatChecks <=> FailedFormatChecks(mi_input) # {}
        /\ mi_args.enforce_format_checks =>
            /\ FormatIn(mi_result.errors) = FailedFormatChecks(mi_input)
            /\ FormatCount(mi_result.errors) = Cardinality(FailedFormatChecks(mi_input))
            /\ FormatCount(mi_result.warnings) = 0
            /\ ~mi_result.passedFormatChecks => mi_result.errors # << >>
        /\ ~mi_args.enforce_format_checks =>
            /\ FormatCount(mi_result.errors) = 0
            /\ FormatIn(mi_result.warnings) =
                   (IF mi_args.warning_options.format_warnings
                    THEN FailedFormatChecks(mi_input) ELSE {})
            /\ FormatCount(mi_result.warnings) = Cardinality(FormatIn(mi_result.warnings))

\* a document failing two format checks was validated without enforcement
\* and with format warnings on
C26_Witness ==
    /\ mi_call = "validate" /\ mi_result.raised = ""
    /\ Cardinality(FailedFormatChecks(mi_input)) = 2
    /\ ~mi_args.enforce_format_checks
    /\ mi_args.warning_options.format_warnings
    /\ ~mi_result.passedFormatChecks
    /\ mi_result.errors = << >>
    /\ FormatCount(mi_result.warnings) = 2

\* the auto-strip warning that lists the given modTypes
StripWarning(modTypes) == "will auto-strip mods: " \o JoinComma(modTypes)

\* the auto-strip warnings of the sampled modTypes arrays
StripWarnings ==
    { StripWarning(m) : m \in { <<"gamemodels", "datasets">>, <<"textures">>,
                                <<"datasets", "stats">>,
                                <<"textures", "gamemodels", "datasets">> } }

ModFindings ==
    {"unable to auto-strip mods", "texture overrides", "mapMod without modTypes"}
        \cup StripWarnings

\* the positions of a list of findings that hold the given finding
Occurrences(list, finding) == {i \in 1..Len(list) : list[i] = finding}

\* the mod findings in a list of findings
ModIn(list) == {list[i] : i \in 1..Len(list)} \cap ModFindings

FirstIndex(names, a) ==
    IF \E i \in 1..Len(names) : names[i] = a
    THEN CHOOSE i \in 1..Len(names) :
            names[i] = a /\ \A j \in 1..(i - 1) : names[j] # a
    ELSE 0

\* the names of additionalAuthors, in order
AdditionalOf(info) ==
    [i \in 1..Len(info.additionalAuthors) |-> info.additionalAuthors[i].name]

\* the list deduplicates the primary name followed by the additional names, by
\* whole name and in order of first occurrence
DeduplicatedFrom(list, primary, additional) ==
    /\ Len(list) >= 1 /\ list[1] = primary
    /\ \A i, j \in 1..Len(list) : i # j => list[i] # list[j]
    /\ \A k \in 1..Len(additional) :
        (additional[k] # << >> /\ additional[k] # primary) =>
            Cardinality({i \in 1..Len(list) : list[i] = additional[k]}) = 1
    /\ \A i \in 2..Len(list) : FirstIndex(additional, list[i]) > 0
    /\ \A i, j \in 2..Len(list) :
        i < j => FirstIndex(additional, list[i]) < FirstIndex(additional, list[j])

\* C20: the author list of the normalized record starts with the primary
\* author, holds no name twice, holds every distinct non-empty additional name
\* that differs from the primary name exactly once, and keeps the names in
\* the order of their first occurrence (primary 'A' with additional
\* ['A', 'B', 'B'] gives exactly ['A', 'B']).
C20_AuthorsDeduplicated ==
    (/\ mi_call = "convert"
     /\ Has(mi_input, "additionalAuthors")
     /\ Has(mi_input, "author"))
        => /\ mi_result.raised = ""
           /\ DeduplicatedFrom(mi_result.output.author, mi_input.author.name,
                               AdditionalOf(mi_input))


\* the record a finished normalizer call returned has the mod entry, as a key
\* of the record and in the order of its keys, exactly when mapMod is true
ModKeyAsMapMod(result, info) ==
    result.raised = "" =>
        /\ Has(result.output, "mod") <=> (info.mapMod = TRUE)
        /\ (\E i \in 1..Len(result.order) : result.order[i] = "mod") <=> (info.mapMod = TRUE)
        /\ Has(result.output, "mod") => result.output.mod = TRUE
        /\ {result.order[i] : i \in 1..Len(result.order)} = DOMAIN result.output
        /\ Len(result.order) = Cardinality(DOMAIN result.output)

Pinned(archive) ==
    \A i \in 1..Len(archive) :
        /\ archive[i].header.date_time = DATETIMEZERO
        /\ archive[i].header.external_attr = 0
        /\ archive[i].header.create_system = 0
        /\ archive[i].header.create_version = 20
        /\ archive[i].header.extract_version = 20
        /\ archive[i].header.flag_bits = 2048

\* the marker entries of an archive
MarkerEntries(archive) ==
    {i \in 1..Len(archive) : archive[i].header.filename = <<".map-package-disambiguate">>}

\* C22: packaging the same directory tree twice with the same salt, or twice
\* without salt, yields the same archive: the same entries in the same order,
\* every entry's metadata pinned to the sentinel values; packaging with a
\* different salt, or with versus without salt, yields a different archive,
\* and the salt is written as exactly one extra marker entry.
C22_ReproducibleArchive ==
    /\ \A i \in 1..Len(pk_calls) :
        /\ Pinned(pk_calls[i].archive)
        /\ Cardinality(MarkerEntries(pk_calls[i].archive))
               = (IF pk_calls[i].salt = "None" THEN 0 ELSE 1)
        /\ Len(pk_calls[i].archive) = Cardinality(DOMAIN pk_tree)
               + (IF pk_calls[i].salt = "None" THEN 0 ELSE 1)
    /\ \A i, j \in 1..Len(pk_calls) :
        IF pk_calls[i].salt = pk_calls[j].salt
        THEN pk_calls[i].archive = pk_calls[j].archive
        ELSE pk_calls[i].archive # pk_calls[j].archive


\* ------------------------------------------------------------------------
\* Map-list validation command
\* ------------------------------------------------------------------------
\* the command went through the whole list, at least one listed map was
\* validated, none failed processing, and every validated map passed
AllListedPassed ==
    /\ vlist.i > Len(map_path_list.paths)
    /\ Len(vlist.validation_details) > 0
    /\ Len(vlist.maps_failed_processing) = 0
    /\ \A i \in 1..Len(vlist.validation_details) :
        passed_validation(vlist.validation_details[i].details)

\* C23: the map-list command ends with exit status 0 exactly when at least one
\* listed map was validated, no listed map failed processing and every
\* validated map passed, and the exit status agrees with the overall status
\* printed (0 with PASS, non-zero with FAILED).
C23_ExitStatusAgrees ==
    vlist.pc = "exited" =>
        /\ vlist.exit = 0 <=> AllListedPassed
        /\ vlist.overall = "PASS" => vlist.exit = 0
        /\ vlist.overall = "FAILED" => vlist.exit # 0


=============================================================================
